---- MODULE Spec2Model ----
(***************************************************************************)
(* i3bar-river: the status feed (StatusCmd + Protocol), the block cache,   *)
(* the block layout (render_blocks) and the hit-region registry            *)
(* (ButtonManager).                                                        *)
(*                                                                         *)
(* The byte stream of the status command is modelled at the level of       *)
(* lexical units: every element of a stream is one unit of the feed        *)
(*   "H1"  the bytes  {"version":1      (a header object, not yet closed)  *)
(*   "H2"  the bytes  {"version":2                                         *)
(*   "Hc"  the bytes  {"version":1,"click_events":true                     *)
(*   "}"   closes an object                                                *)
(*   "[" "]" ","  " "  "\n"   themselves                                   *)
(*   "a" "b"  a complete block object {"full_text":"a"}, {"full_text":"b"} *)
(*   "x"   a byte of plain text                                            *)
(* A text (String) is the sequence of its units.  Option<T> is a sequence  *)
(* of length at most one: None is << >>, Some(v) is <<v>>.                 *)
(***************************************************************************)
EXTENDS Integers, Sequences, FiniteSets, TLC

VARIABLES
    sent,        \* every unit the status command has written so far
    pipe,        \* units written and not yet returned by fill_buf
    protocol,    \* StatusCmd.protocol
    buf,         \* StatusCmd.buf
    failed,      \* a call on the parser returned Err
    blocks,      \* SharedState.blocks, the list last passed to set_blocks
    lastCall,    \* history: the last process_new_bytes call (state before, input, result)
    lastTake,    \* history: the last get_blocks call (state before, value returned,
                 \* fresh: no process_new_bytes call since)
    decoded,     \* history: snapshots whose decoding completed since the last get_blocks
    held,        \* bytes the BufReader still holds after a failed notify_available
    computed,    \* BlocksCache.computed
    cacheIn,     \* history: the list last passed to process_new_blocks
    cacheCalls,  \* history: closure calls (measurements) made by the last process_new_blocks
    cacheRepeat, \* history: the last process_new_blocks got the same list as the one before
    cacheUpdates, \* history: process_new_blocks calls made so far, counted up to 2
    cacheBefore, \* history: BlocksCache.computed before the last process_new_blocks
    blocks_btns, \* Bar.blocks_btns, the regions of the ButtonManager
    frame,       \* history: what the last render_blocks call did
    lastClick,   \* history: the last ButtonManager::click call
    bar,         \* per bar: hidden, mapped, throttle (the frame callback waited for)
                 \* and throttled
    callbacks,   \* the frame callbacks requested and not done yet, as pairs of
                 \* the wl_callback and the bar whose surface it was requested on
    lastBarFrame, \* history: the last Bar::frame call
    seat,        \* the Seat of the pointer: cur_surface (on a bar or not), x,
                 \* pending_button, pending_scroll, scroll_frame
    tags_btns,   \* Bar.tags_btns
    inputOpen,   \* the status command still reads its standard input
    panicked,    \* the process has panicked
    lastFrame,   \* history: the last pointer frame, its clicks and the
                 \* send_click_event calls they made
    pendingCode, \* history: the raw code of the button press not yet framed
    redraw,      \* per bar: a frame was requested and is not drawn yet
    lastError,   \* history: the last set_error call and the bars drawn since
    eventLoop,   \* the EventLoop (cbs, on_idle) and where EventLoop::run is, with
                 \* its locals pollfds and on_idle_scratch
    iteration,   \* history: the callbacks invoked in the current iteration of
                 \* EventLoop::run and the callbacks unregistered so far
    lastRoute,   \* history: the last Bar::click call and where it went
    focused_tags, \* OutputStatus.focused_tags of the river provider: the set of
                 \* the bits of the mask that are 1, bit 0 being tag 1
    command,     \* history: the last wheel click on the tags under river and the
                 \* mask it sent with set-focused-tags
    workspaces,  \* NiriInfoProvider.workspaces
    lastNiri     \* history: the last niri_cb call, event by event

feedVars == <<sent, pipe, protocol, buf, failed, blocks, lastCall, lastTake, decoded,
              held>>

cacheVars == <<computed, cacheIn, cacheCalls, cacheRepeat, cacheUpdates, cacheBefore>>

throttleVars == <<bar, callbacks, lastBarFrame>>

barVars == <<blocks_btns, frame, lastClick, throttleVars>>

pointerVars == <<seat, tags_btns, inputOpen, panicked, lastFrame, pendingCode>>

errorVars == <<redraw, lastError>>

loopVars == <<eventLoop, iteration>>

wmVars == <<focused_tags, command, workspaces, lastNiri>>

restVars == <<loopVars, lastRoute, wmVars>>

vars == <<feedVars, cacheVars, barVars, pointerVars, errorVars, restVars>>

None == << >>
Some(v) == <<v>>

\* Total number of units the status command writes.
MaxStream == 10

Last(s) == s[Len(s)]

Drop(s, n) == SubSeq(s, n + 1, Len(s))

----------------------------------------------------------------------------
(* Block records                                                           *)

\* Block { full_text, ..Default::default() }: derive(Default) gives
\* separator = false and separator_block_width = 0.
DefaultBlock(text) ==
    [full_text |-> text, short_text |-> None, min_width |-> None,
     markup |-> None, name |-> None, instance |-> None,
     separator |-> FALSE, separator_block_width |-> 0]

def_sep == TRUE

def_sep_width == 9

\* A Block deserialized from {"full_text": text}: the serde defaults apply.
DeBlock(text) ==
    [full_text |-> text, short_text |-> None, min_width |-> None,
     markup |-> None, name |-> None, instance |-> None,
     separator |-> def_sep, separator_block_width |-> def_sep_width]

----------------------------------------------------------------------------
(* utils.rs                                                                *)

HeaderOpen == {"H1", "H2", "Hc"}

BlockObj == {"a", "b"}

\* a block object with full_text and a key that is no field of Block
ExtraFieldObj == {"u"}

\* whitespace skipped by serde_json between tokens
JsonWs == {" ", "\n"}

\* u8::is_ascii_whitespace
AsciiWs == {" ", "\n"}

\* the bytes de_first_json skips itself before handing over to serde_json
DeSkip == {" ", ",", "\n"}

RECURSIVE SkipFrom(_, _, _)
\* index of the first unit of s at or after i that is not in set (Len(s)+1 if none)
SkipFrom(s, i, set) ==
    IF i <= Len(s) /\ s[i] \in set THEN SkipFrom(s, i + 1, set) ELSE i

\* s without its leading units that are in set
SkipAll(s, set) == Drop(s, SkipFrom(s, 1, set) - 1)

\* a deserialization that did not produce a value: kind is "eof" or "err"
NoValue(kind) == [kind |-> kind, end |-> 0, obj |-> None]

\* ObjTail when j is the index of the first non-whitespace unit
ObjTailAt(s, j) ==
    IF j > Len(s) THEN "eof"
    ELSE IF s[j] = "}" THEN "ok"
    ELSE IF s[j] = "," /\ SkipFrom(s, j + 1, JsonWs) > Len(s) THEN "eof"
    ELSE "err"

\* The rest of an object opened by the unit at index i - 1 (a header-like
\* object {"version":N ): "ok" when its closing brace comes next, "eof"
\* when the input ends inside it, "err" on a syntax error.
ObjTail(s, i) == ObjTailAt(s, SkipFrom(s, i, JsonWs))

\* serde: one value of type JsonHeader at the start of s (s is not empty
\* and does not start with whitespace).
DeHeader(s) ==
    IF s[1] \in HeaderOpen THEN
        IF ObjTail(s, 2) = "ok"
        THEN [kind |-> "ok", end |-> SkipFrom(s, 2, JsonWs),
              obj |-> Some([version |-> IF s[1] = "H2" THEN 2 ELSE 1,
                            click_events |-> s[1] = "Hc"])]
        ELSE NoValue(ObjTail(s, 2))
    ELSE IF s[1] = "[" THEN
        \* a struct may be given as a sequence; its first element must be the
        \* version number, which no unit of the model is
        IF SkipFrom(s, 2, JsonWs) > Len(s) THEN NoValue("eof") ELSE NoValue("err")
    ELSE NoValue("err")

RECURSIVE DeElems(_, _, _, _)
\* DeElems when j is the index of the first non-whitespace unit
DeElemsAt(s, j, st, acc) ==
    IF j > Len(s) THEN NoValue("eof")
    ELSE IF st = "sep" THEN
        IF s[j] = "]" THEN [kind |-> "ok", end |-> j, obj |-> Some(acc)]
        ELSE IF s[j] = "," THEN DeElems(s, j + 1, "elem", acc)
        ELSE NoValue("err")
    ELSE
        IF s[j] = "]" /\ st = "first" THEN [kind |-> "ok", end |-> j, obj |-> Some(acc)]
        ELSE IF s[j] \in BlockObj
             THEN DeElems(s, j + 1, "sep", Append(acc, DeBlock(<<s[j]>>)))
        ELSE IF s[j] \in ExtraFieldObj
             \* Block is not deny_unknown_fields: the derived visitor skips the key
             THEN DeElems(s, j + 1, "sep", Append(acc, DeBlock(<<s[j]>>)))
        ELSE IF s[j] \in HeaderOpen THEN
            \* an object without full_text: "missing field" once it is closed
            IF ObjTail(s, j + 1) = "eof" THEN NoValue("eof") ELSE NoValue("err")
        ELSE IF s[j] = "[" THEN
            \* a Block given as a sequence needs a string first
            IF SkipFrom(s, j + 1, JsonWs) > Len(s) THEN NoValue("eof") ELSE NoValue("err")
        ELSE NoValue("err")

\* serde: the elements of a Vec<Block> from index i on; st is "first" right
\* after '[', "elem" after a comma, "sep" after an element.
DeElems(s, i, st, acc) == DeElemsAt(s, SkipFrom(s, i, JsonWs), st, acc)

\* serde: one value of type Vec<Block> at the start of s.
DeVecBlock(s) ==
    IF s[1] = "[" THEN DeElems(s, 2, "first", << >>) ELSE NoValue("err")

\* The three results of de_first_json: d is what serde made of val.
DeResult(val, d) ==
    IF d.kind = "ok" THEN [kind |-> "some", obj |-> d.obj, rem |-> Drop(val, d.end)]
    ELSE IF d.kind = "eof" THEN [kind |-> "none", obj |-> None, rem |-> val]
    ELSE [kind |-> "err", obj |-> None, rem |-> << >>]

\* Deserializer::from_slice(s).into_iter().next() for type T, s having no
\* leading whitespace.
DeNext(T, s) ==
    IF s = << >> THEN [kind |-> "none", obj |-> None, rem |-> << >>]
    ELSE DeResult(s, IF T = "JsonHeader" THEN DeHeader(s) ELSE DeVecBlock(s))

\* de_first_json::<T>: kind "some" = Ok((Some(obj), rem)), "none" =
\* Ok((None, rem)), "err" = Err.
de_first_json(T, s) == DeNext(T, SkipAll(SkipAll(s, DeSkip), JsonWs))

RECURSIVE de_last_json_loop(_, _, _)
\* one turn of de_last_json's loop keeping the first decoded object
de_last_json_step_first(T, last, r) ==
    IF r.kind = "err" THEN r
    ELSE IF r.kind = "some"
         THEN de_last_json_loop(T, r.rem, IF last = None THEN r.obj ELSE last)
    ELSE [kind |-> IF last = None THEN "none" ELSE "some", obj |-> last, rem |-> r.rem]

\* one turn of de_last_json's loop: r is what de_first_json returned
de_last_json_step(T, last, r) ==
    IF r.kind = "err" THEN r
    ELSE IF r.kind = "some" THEN de_last_json_loop(T, r.rem, r.obj)
    ELSE [kind |-> IF last = None THEN "none" ELSE "some", obj |-> last, rem |-> r.rem]

\* the loop of de_last_json; last is the object decoded last so far
de_last_json_loop(T, s, last) == de_last_json_step(T, last, de_first_json(T, s))

\* de_last_json::<T>
de_last_json(T, s) == de_last_json_loop(T, s, None)

\* positions of the newlines of s
Newlines(s) == {i \in 1..Len(s) : s[i] = "\n"}

Max(S) == CHOOSE m \in S : \A k \in S : k <= m

\* last_line that takes everything before the last newline as the line
last_line_at_whole(s, last) == Some(<<SubSeq(s, 1, last - 1), Drop(s, last)>>)

\* last_line when s has a newline: last is the position of the last one
last_line_at(s, last) ==
    IF Newlines(s) \ {last} # {}
    THEN Some(<<SubSeq(s, Max(Newlines(s) \ {last}) + 1, last - 1), Drop(s, last)>>)
    ELSE Some(<<SubSeq(s, 1, last - 1), Drop(s, last)>>)

\* last_line: None, or Some(<<line, rem>>)
last_line(s) ==
    IF Newlines(s) = {} THEN None ELSE last_line_at(s, Max(Newlines(s)))

\* trim_ascii_start that skips nothing
trim_ascii_start_none(bytes) == bytes

trim_ascii_start(bytes) == SkipAll(bytes, AsciiWs)

----------------------------------------------------------------------------
(* i3bar_protocol.rs                                                       *)

\* the version test accepting every version from 1 on
VersionSupported_from1(header) == header.version >= 1

\* header.version == 1, the only protocol version accepted
VersionSupported(header) == header.version = 1

Unknown == [tag |-> "Unknown", header |-> None, pending |-> None]

Ret(p, ok, rem) == [protocol |-> p, ok |-> ok, rem |-> rem]

RECURSIVE process_new_bytes(_, _)
\* the arm Self::Unknown: r is de_first_json::<JsonHeader>(bytes)
process_unknown(self, bytes, r) ==
    IF r.kind = "some" /\ VersionSupported(r.obj[1]) THEN
        process_new_bytes([tag |-> "JsonNotStarted", header |-> r.obj,
                           pending |-> None], r.rem)
    ELSE IF r.kind = "some" THEN Ret(self, FALSE, << >>)
    ELSE process_new_bytes([tag |-> "PlainText", header |-> None,
                            pending |-> None], bytes)

\* the arm Self::PlainText going back to detection when no line is complete
process_plain_text_reset(self, bytes, l) ==
    IF l # None
    THEN Ret([self EXCEPT !.pending = Some(l[1][1])], TRUE, l[1][2])
    ELSE Ret(Unknown, TRUE, bytes)

\* the arm Self::PlainText: l is last_line(bytes)
process_plain_text(self, bytes, l) ==
    IF l # None
    THEN Ret([self EXCEPT !.pending = Some(l[1][1])], TRUE, l[1][2])
    ELSE Ret(self, TRUE, bytes)

\* the arm Self::JsonNotStarted: t is trim_ascii_start(bytes)
process_json_not_started(self, t) ==
    IF t = << >> THEN Ret(self, TRUE, << >>)
    ELSE IF Head(t) = "[" THEN
        process_new_bytes([tag |-> "Json", header |-> self.header,
                           pending |-> None], Tail(t))
    ELSE Ret(self, FALSE, << >>)

\* the arm Self::Json that skips a malformed buffer instead of failing
process_json_skip(self, r) ==
    IF r.kind = "err" THEN Ret(self, TRUE, << >>)
    ELSE IF r.kind = "some" THEN Ret([self EXCEPT !.pending = r.obj], TRUE, r.rem)
    ELSE Ret(self, TRUE, r.rem)

\* the arm Self::Json: r is de_last_json(bytes)
process_json(self, r) ==
    IF r.kind = "err" THEN Ret(self, FALSE, << >>)
    ELSE IF r.kind = "some" THEN Ret([self EXCEPT !.pending = r.obj], TRUE, r.rem)
    ELSE Ret(self, TRUE, r.rem)

\* Protocol::process_new_bytes: the protocol afterwards, Ok/Err, and the
\* unused bytes of an Ok.
process_new_bytes(self, bytes) ==
    IF self.tag = "Unknown"
    THEN process_unknown(self, bytes, de_first_json("JsonHeader", bytes))
    ELSE IF self.tag = "PlainText"
    THEN process_plain_text(self, bytes, last_line(bytes))
    ELSE IF self.tag = "JsonNotStarted"
    THEN process_json_not_started(self, trim_ascii_start(bytes))
    ELSE process_json(self, de_last_json("VecBlock", bytes))

\* get_blocks that returns a copy and leaves the pending value in place
get_blocks_keep(self) ==
    IF self.tag \in {"Unknown", "JsonNotStarted"} THEN [protocol |-> self, ret |-> None]
    ELSE IF self.tag = "PlainText" THEN
        IF self.pending = None THEN [protocol |-> self, ret |-> None]
        ELSE [protocol |-> self, ret |-> Some(<<DefaultBlock(self.pending[1])>>)]
    ELSE [protocol |-> self, ret |-> self.pending]

\* Protocol::get_blocks: the protocol afterwards and the returned Option.
get_blocks(self) ==
    IF self.tag \in {"Unknown", "JsonNotStarted"} THEN [protocol |-> self, ret |-> None]
    ELSE IF self.tag = "PlainText" THEN
        IF self.pending = None THEN [protocol |-> self, ret |-> None]
        ELSE [protocol |-> [self EXCEPT !.pending = None],
              ret |-> Some(<<DefaultBlock(self.pending[1])>>)]
    ELSE [protocol |-> [self EXCEPT !.pending = None], ret |-> self.pending]

----------------------------------------------------------------------------
(* text.rs and blocks_cache.rs                                             *)

\* Width in pixels pango reports for one unit of text.
GlyphWidth == 5

\* layout.pixel_size() of a text; the texts of the model hold no markup tags,
\* so the width is the same with and without markup.
PixelWidth(text, markup) == GlyphWidth * Len(text)

Pixels(p) == [kind |-> "Pixels", px |-> p, text |-> << >>]

Text(t) == [kind |-> "Text", px |-> 0, text |-> t]

\* Text::compute with no padding: the measured text, widened to min_width.
ComputedText(text, min_width, markup) ==
    [text |-> text, markup |-> markup, min_width |-> min_width,
     width |-> IF min_width # None /\ PixelWidth(text, markup) < min_width[1]
               THEN min_width[1] ELSE PixelWidth(text, markup)]

IsPango(block) == block.markup = Some("pango")

\* the closure comp_min_width
comp_min_width(block) ==
    IF block.min_width = None THEN None
    ELSE IF block.min_width[1].kind = "Pixels" THEN Some(block.min_width[1].px)
    ELSE Some(PixelWidth(block.min_width[1].text, IsPango(block)))

\* the closure comp_full
comp_full(block, min_width) == ComputedText(block.full_text, min_width, IsPango(block))

\* the closure comp_short
comp_short(block, min_width) ==
    IF block.short_text = None THEN None
    ELSE Some(ComputedText(block.short_text[1], min_width, IsPango(block)))

\* a ComputedBlock built from scratch: mw is comp_min_width(block)
NewComputed(block, mw) ==
    [block |-> block, full |-> comp_full(block, mw),
     short |-> comp_short(block, mw), min_width |-> mw]

\* the test that looks at min_width only
NeedsRebuild_min_width(block, entry) == block.min_width # entry.block.min_width

\* the test that replaces a cached entry as a whole
NeedsRebuild(block, entry) ==
    block.min_width # entry.block.min_width \/ block.markup # entry.block.markup

\* the Block kept in an entry that is updated in place; short_text is not
\* among the fields the code assigns
UpdatedBlock(block, old) ==
    [old EXCEPT !.full_text = IF block.full_text # old.full_text
                                 \/ block.short_text # old.short_text
                              THEN block.full_text ELSE old.full_text,
                !.name = block.name,
                !.instance = block.instance,
                !.separator = block.separator,
                !.separator_block_width = block.separator_block_width]

\* one turn of the same-length loop
UpdateEntry(block, entry) ==
    IF NeedsRebuild(block, entry) THEN NewComputed(block, comp_min_width(block))
    ELSE [entry EXCEPT
            !.block = UpdatedBlock(block, entry.block),
            !.full = IF block.full_text # entry.block.full_text
                     THEN comp_full(block, entry.min_width) ELSE entry.full,
            !.short = IF block.short_text # entry.block.short_text
                      THEN comp_short(block, entry.min_width) ELSE entry.short]

\* the number of comp_min_width, comp_full and comp_short calls of that turn
EntryCalls(block, entry) ==
    IF NeedsRebuild(block, entry) THEN 3
    ELSE (IF block.full_text # entry.block.full_text THEN 1 ELSE 0)
         + (IF block.short_text # entry.block.short_text THEN 1 ELSE 0)

RECURSIVE SumTo(_, _)
\* f[1] + ... + f[n]
SumTo(f, n) == IF n = 0 THEN 0 ELSE f[n] + SumTo(f, n - 1)

\* process_new_blocks that, on a change of length, updates the entries it
\* has in place and builds only the missing ones
process_new_blocks_resize(cache, new) ==
    [computed |-> [i \in 1..Len(new) |->
                      IF i <= Len(cache) THEN UpdateEntry(new[i], cache[i])
                      ELSE NewComputed(new[i], comp_min_width(new[i]))],
     calls |-> SumTo([i \in 1..Len(new) |->
                         IF i <= Len(cache) THEN EntryCalls(new[i], cache[i]) ELSE 3],
                     Len(new))]

\* BlocksCache::process_new_blocks: the new cache and the number of closure
\* calls made.
process_new_blocks(cache, new) ==
    IF Len(new) # Len(cache)
    THEN [computed |-> [i \in 1..Len(new) |-> NewComputed(new[i], comp_min_width(new[i]))],
          calls |-> 3 * Len(new)]
    ELSE [computed |-> [i \in 1..Len(new) |-> UpdateEntry(new[i], cache[i])],
          calls |-> SumTo([i \in 1..Len(new) |-> EntryCalls(new[i], cache[i])], Len(new))]

\* Longest block list handed to the cache.
MaxCacheLen == 2

\* a Block as deserialized from a feed, with the fields the cache looks at
CacheBlock(full, short, mw, markup) ==
    [DeBlock(full) EXCEPT !.short_text = short, !.min_width = mw, !.markup = markup]

\* The blocks the status command sends in the cache runs.
CacheBlocks ==
    { CacheBlock(f, s, None, None) :
        f \in {<<"a">>, <<"a", "a">>}, s \in {None, Some(<< >>), Some(<<"a">>)} }
    \cup { CacheBlock(<<"a">>, Some(<<"a">>), Some(Pixels(12)), None),
           CacheBlock(<<"a">>, None, Some(Text(<<"a", "a", "a">>)), None),
           CacheBlock(<<"a">>, Some(<<"a">>), None, Some("pango")) }

RECURSIVE ListsOf(_, _)
\* every sequence of at most n elements of S
ListsOf(S, n) ==
    IF n = 0 THEN {<< >>}
    ELSE ListsOf(S, n - 1) \cup {Append(l, b) : l \in {k \in ListsOf(S, n - 1) : Len(k) = n - 1}, b \in S}

CacheInit ==
    /\ computed = << >>
    /\ cacheIn = << >>
    /\ cacheCalls = 0
    /\ cacheRepeat = FALSE
    /\ cacheUpdates = 0
    /\ cacheBefore = << >>

CacheApply(new, r) ==
    /\ computed' = r.computed
    /\ cacheCalls' = r.calls
    /\ cacheRepeat' = (cacheUpdates > 0 /\ new = cacheIn)
    /\ cacheIn' = new
    /\ cacheUpdates' = IF cacheUpdates < 2 THEN cacheUpdates + 1 ELSE cacheUpdates
    /\ cacheBefore' = computed

\* BlocksCache::process_new_blocks on the list new.
ProcessNewBlocks(new) ==
    /\ CacheApply(new, process_new_blocks(computed, new))
    /\ UNCHANGED <<feedVars, barVars, pointerVars, errorVars, restVars>>

----------------------------------------------------------------------------
(* bar.rs render_blocks and button_manager.rs                              *)

\* Config::default().separator_width
separator_width == 2

\* the hit test of ButtonManager::click
hit_half_open(b, x) == x >= b.x_off /\ x < b.x_off + b.width

hit(b, x) == x >= b.x_off /\ x <= b.x_off + b.width

RECURSIVE find(_, _, _)
\* Iterator::find over the regions from the i-th on, mapped to the payload
find(self, i, x) ==
    IF i > Len(self) THEN None
    ELSE IF hit(self[i], x) THEN Some(self[i].elem)
    ELSE find(self, i + 1, x)

\* ButtonManager::click
click(self, x) == find(self, 1, x)

\* ButtonManager::push
push(self, x_offset, width, elem) ==
    Append(self, [x_off |-> x_offset, width |-> width, elem |-> elem])

RECURSIVE series_end_any_name(_, _, _)
\* the inner while loop without the test of the name
series_end_any_name(blks, series_name, s_end) ==
    IF s_end < Len(blks)
       /\ blks[s_end].block.separator_block_width = 0
    THEN series_end_any_name(blks, series_name, s_end + 1)
    ELSE s_end

RECURSIVE series_end(_, _, _)
\* the inner while loop of the grouping: s_end is the number of blocks up to
\* the end of the series (the code's exclusive 0-based index)
series_end(blks, series_name, s_end) ==
    IF s_end < Len(blks)
       /\ blks[s_end].block.separator_block_width = 0
       /\ blks[s_end + 1].block.name = series_name
    THEN series_end(blks, series_name, s_end + 1)
    ELSE s_end

\* what one block adds to the delta of its series
block_delta(comp) ==
    IF comp.short # None THEN comp.full.width - comp.short[1].width ELSE 0

\* the LogialBlock of blocks[s_start..s_end]; its blocks are kept as their
\* positions in the slice
LogialBlock(blks, s_start, s_end) ==
    [blocks |-> [k \in 1..(s_end - s_start) |-> s_start + k],
     delta |-> SumTo([k \in 1..(s_end - s_start) |-> block_delta(blks[s_start + k])],
                     s_end - s_start),
     switched_to_short |-> FALSE,
     separator |-> blks[s_end].block.separator,
     separator_block_width |-> blks[s_end].block.separator_block_width]

RECURSIVE group(_, _, _)
RECURSIVE group_series(_, _, _, _)
\* the outer while loop of the grouping
group(blks, s_start, acc) ==
    IF s_start < Len(blks)
    THEN group_series(blks, s_start,
                      series_end(blks, blks[s_start + 1].block.name, s_start + 1), acc)
    ELSE acc

group_series(blks, s_start, s_end, acc) ==
    group(blks, s_end, Append(acc, LogialBlock(blks, s_start, s_end)))

\* blocks_width that counts the separator width of every series
grouped_width_every(blks, series) ==
    SumTo([i \in 1..Len(blks) |-> blks[i].full.width], Len(blks))
    + SumTo([k \in 1..Len(series) |-> series[k].separator_block_width], Len(series))

\* blocks_width when the grouping is done: every full width, and the
\* separator width of every series but the one that ends the list
grouped_width(blks, series) ==
    SumTo([i \in 1..Len(blks) |-> blks[i].full.width], Len(blks))
    + SumTo([k \in 1..Len(series) |->
                IF Last(series[k].blocks) # Len(blks)
                THEN series[k].separator_block_width ELSE 0], Len(series))

\* every sequence that lists the elements of S once each
Perms(S) ==
    {p \in [1..Cardinality(S) -> S] :
        \A a, b \in 1..Cardinality(S) : a # b => p[a] # p[b]}

\* the series with delta > 0, in every order sort_unstable_by may leave them:
\* descending delta, equal deltas in any order
sorted_deltas(series) ==
    {p \in Perms({k \in 1..Len(series) : series[k].delta > 0}) :
        \A a, b \in 1..Len(p) : a < b => series[p[a]].delta >= series[p[b]].delta}

\* the test that ends the switching loop
fits_strict(offset_left, blocks_width, full_width) ==
    offset_left + blocks_width < full_width

fits(offset_left, blocks_width, full_width) ==
    offset_left + blocks_width <= full_width

RECURSIVE switch_loop(_, _, _, _, _, _)
RECURSIVE switch_one(_, _, _, _, _, _)
\* the for loop over deltas from its k-th element on
switch_loop(series, deltas, k, blocks_width, offset_left, full_width) ==
    IF k > Len(deltas)
    THEN [series |-> series, blocks_width |-> blocks_width, switched |-> Len(deltas)]
    ELSE switch_one([series EXCEPT ![deltas[k]].switched_to_short = TRUE], deltas, k,
                    blocks_width - series[deltas[k]].delta, offset_left, full_width)

switch_one(series, deltas, k, blocks_width, offset_left, full_width) ==
    IF fits(offset_left, blocks_width, full_width)
    THEN [series |-> series, blocks_width |-> blocks_width, switched |-> k]
    ELSE switch_loop(series, deltas, k + 1, blocks_width, offset_left, full_width)

\* the switching entered without the test of the width
switch_to_short_always(series, deltas, blocks_width, offset_left, full_width) ==
    switch_loop(series, deltas, 1, blocks_width, offset_left, full_width)

\* "Progressively switch to short mode"
switch_to_short(series, deltas, blocks_width, offset_left, full_width) ==
    IF offset_left + blocks_width > full_width
    THEN switch_loop(series, deltas, 1, blocks_width, offset_left, full_width)
    ELSE [series |-> series, blocks_width |-> blocks_width, switched |-> 0]

\* the closure of retain
keeps(s, text) ==
    \/ s.switched_to_short
       /\ (IF text.short # None THEN text.short[1].width > 0 ELSE text.full.width > 0)
    \/ ~s.switched_to_short /\ text.full.width > 0

\* "Remove all the empty blocks"
retain(blks, series) ==
    [k \in 1..Len(series) |->
        [series[k] EXCEPT !.blocks = SelectSeq(@, LAMBDA i : keeps(series[k], blks[i]))]]

to_render(s, comp) ==
    IF s.switched_to_short /\ comp.short # None THEN comp.short[1] ELSE comp.full

\* the body of the inner render loop for the block at position i; st holds
\* j, blocks_width, the buttons and what was drawn
render_block(st, i, comp, text, full_width) ==
    [st EXCEPT !.j = @ + 1,
               !.texts = Append(@, [block |-> i, x_offset |-> full_width - st.blocks_width,
                                    text |-> text]),
               !.buttons = push(@, full_width - st.blocks_width, text.width,
                                <<comp.block.name, comp.block.instance>>),
               !.blocks_width = @ - text.width]

RECURSIVE render_series(_, _, _, _, _)
\* the inner render loop from the n-th block of the series on
render_series(blks, s, n, st, full_width) ==
    IF n > Len(s.blocks) THEN st
    ELSE render_series(blks, s, n + 1,
                       render_block(st, s.blocks[n], blks[s.blocks[n]],
                                    to_render(s, blks[s.blocks[n]]), full_width),
                       full_width)

\* the separator after the k-th series: the tick is stroked in the middle of
\* the gap that starts at x_offset
render_separator(blks, s, k, st, full_width) ==
    IF st.j # Len(blks) /\ s.separator_block_width > 0
    THEN [st EXCEPT !.gaps = Append(@, [series |-> k,
                                        x_offset |-> full_width - st.blocks_width,
                                        width |-> s.separator_block_width,
                                        tick |-> s.separator /\ separator_width > 0]),
                    !.blocks_width = @ - s.separator_block_width]
    ELSE st

RECURSIVE render_loop(_, _, _, _, _)
\* the outer render loop from the k-th series on
render_loop(blks, series, k, st, full_width) ==
    IF k > Len(series) THEN st
    ELSE render_loop(blks, series, k + 1,
                     render_separator(blks, series[k], k,
                                      render_series(blks, series[k], 1, st, full_width),
                                      full_width),
                     full_width)

\* the render loop run on the regions of the frame before
render_no_clear(blks, series, blocks_width, full_width) ==
    render_loop(blks, retain(blks, series), 1,
                [j |-> 0, blocks_width |-> blocks_width, buttons |-> blocks_btns,
                 texts |-> << >>, gaps |-> << >>],
                full_width)

\* the render loop after buttons.clear()
render(blks, series, blocks_width, full_width) ==
    render_loop(blks, retain(blks, series), 1,
                [j |-> 0, blocks_width |-> blocks_width, buttons |-> << >>,
                 texts |-> << >>, gaps |-> << >>],
                full_width)

\* what one render_blocks call did: grouped is the series and width is
\* blocks_width when the grouping is done, deltas the sorted candidates, sw
\* the outcome of the switching, out the outcome of the render loop
FrameRecord(blks, offset_left, full_width, grouped, width, deltas, sw, out) ==
    [made |-> TRUE, blocks |-> blks, offset_left |-> offset_left,
     full_width |-> full_width, grouped |-> grouped, grouped_width |-> width,
     deltas |-> deltas, switched |-> sw.switched, series |-> sw.series,
     blocks_width |-> sw.blocks_width, texts |-> out.texts, gaps |-> out.gaps,
     buttons |-> out.buttons]

render_switched(blks, offset_left, full_width, grouped, width, deltas, sw) ==
    FrameRecord(blks, offset_left, full_width, grouped, width, deltas, sw,
                render(blks, sw.series, sw.blocks_width, full_width))

render_grouped(blks, offset_left, full_width, grouped, width, deltas) ==
    render_switched(blks, offset_left, full_width, grouped, width, deltas,
                    switch_to_short(grouped, deltas, width, offset_left, full_width))

\* render_blocks, with the outcome of the sort as deltas
render_blocks(blks, offset_left, full_width, grouped, deltas) ==
    render_grouped(blks, offset_left, full_width, grouped,
                   grouped_width(blks, grouped), deltas)

\* Longest block list that is rendered.
MaxBlocks == 3

\* a Block with the fields that decide the grouping and the separators
LayoutBlock(full, short, name, sep, sbw) ==
    [CacheBlock(full, short, None, None) EXCEPT
        !.name = name, !.separator = sep, !.separator_block_width = sbw]

\* The blocks the status command sends in the layout runs: texts with and
\* without a short form, empty texts, blocks that join the next one.
LayoutBlocks ==
    { LayoutBlock(t[1], t[2], s[1], s[2], s[3]) :
        t \in { <<<<"a", "a">>, None>>,
                <<<<"a", "a">>, Some(<<"a">>)>>,
                <<<<"a", "a", "a">>, Some(<< >>)>>,
                <<<< >>, None>>,
                <<<<"a">>, Some(<<"a", "a">>)>> },
        s \in { <<None, TRUE, def_sep_width>>,
                <<None, TRUE, 0>>,
                <<None, FALSE, def_sep_width>>,
                <<Some("n"), TRUE, 0>> } }

\* Where the blocks area starts and how wide the bar is.
OffsetsLeft == {0, 5}

FullWidths == {10, 19, 40}

NoFrame ==
    [made |-> FALSE, blocks |-> << >>, offset_left |-> 0, full_width |-> 0,
     grouped |-> << >>, grouped_width |-> 0, deltas |-> << >>, switched |-> 0,
     series |-> << >>, blocks_width |-> 0, texts |-> << >>, gaps |-> << >>,
     buttons |-> << >>]

NoClick == [made |-> FALSE, buttons |-> << >>, x |-> 0, ret |-> None]

\* The outputs that have a bar.
Bars == {1, 2, 3}

\* Most wl_callback objects alive at a time.
MaxCallbacks == 4

\* The widths and the serials that Configure events carry; the width is
\* never 0 (assert_ne).
Widths == {1}
Serials == {1}

\* Bar::new: hidden, not mapped, not waiting for a frame callback, of width 0;
\* acked is the serial of the last ack_configure sent on the layer surface
\* (0: none yet)
NewBar ==
    [hidden |-> TRUE, mapped |-> FALSE, throttle |-> None, throttled |-> FALSE,
     width |-> 0, acked |-> 0]

\* Bar::frame that draws whether or not a frame callback is waited for
bar_frame_unthrottled(self, cb) ==
    IF ~self.mapped THEN [bar |-> self, drew |-> FALSE, cb |-> None]
    ELSE [bar |-> [self EXCEPT !.throttle = Some(cb)], drew |-> TRUE, cb |-> Some(cb)]

\* Bar::frame: the bar afterwards, whether a buffer was drawn, attached and
\* committed, and the frame callback requested; cb is the wl_callback that
\* frame_with_cb creates if it is called
bar_frame(self, cb) ==
    IF ~self.mapped THEN [bar |-> self, drew |-> FALSE, cb |-> None]
    ELSE IF self.throttle # None
    THEN [bar |-> [self EXCEPT !.throttled = TRUE], drew |-> FALSE, cb |-> None]
    ELSE [bar |-> [self EXCEPT !.throttle = Some(cb)], drew |-> TRUE, cb |-> Some(cb)]

NoBarFrame ==
    [made |-> FALSE, by |-> "none", bar |-> 1, pre |-> NewBar, outstanding |-> {},
     post |-> NewBar, drew |-> FALSE, cb |-> None]

ThrottleInit ==
    /\ bar = [b \in Bars |-> NewBar]
    /\ callbacks = {}
    /\ lastBarFrame = NoBarFrame

\* the wl_callback objects alive
Alive == {p[1] : p \in callbacks}

\* the object id of the next wl_callback
NewCallback == CHOOSE c \in 1..MaxCallbacks : c \notin Alive /\ \A d \in 1..(c - 1) : d \in Alive

\* Bar::frame called by the caller by on bar b, which is in state self,
\* callbacks open being outstanding: r is what it returned
FrameCalled(by, b, self, open, r) ==
    /\ bar' = [bar EXCEPT ![b] = r.bar]
    /\ callbacks' = IF r.cb # None THEN open \cup {<<r.cb[1], b>>} ELSE open
    /\ lastBarFrame' = [made |-> TRUE, by |-> by, bar |-> b, pre |-> self,
                        outstanding |-> {p \in open : p[2] = b},
                        post |-> r.bar, drew |-> r.drew, cb |-> r.cb]

\* Bar::frame called on bar b by one of its callers.
BarFrame(b) ==
    /\ Alive # 1..MaxCallbacks
    /\ FrameCalled("frame", b, bar[b], callbacks, bar_frame(bar[b], NewCallback))
    /\ UNCHANGED <<feedVars, cacheVars, blocks_btns, frame, lastClick, pointerVars, errorVars, restVars>>

\* Bar::show
Show(b) ==
    /\ ~bar[b].mapped
    /\ bar' = [bar EXCEPT ![b].hidden = FALSE]
    /\ UNCHANGED <<feedVars, cacheVars, blocks_btns, frame, lastClick, callbacks,
                   lastBarFrame, pointerVars, errorVars, restVars>>

\* Bar::hide
Hide(b) ==
    /\ bar' = [bar EXCEPT ![b].hidden = TRUE, ![b].mapped = FALSE]
    /\ UNCHANGED <<feedVars, cacheVars, blocks_btns, frame, lastClick, callbacks,
                   lastBarFrame, pointerVars, errorVars, restVars>>

\* the bar after a Configure event was accepted
Configured(self, width, serial) ==
    [self EXCEPT !.width = width, !.acked = serial, !.mapped = TRUE]

\* layer_surface_cb on Configure that does not look at hidden
Configure_hidden(b, width, serial) ==
    /\ Alive # 1..MaxCallbacks
    /\ FrameCalled("configure", b, Configured(bar[b], width, serial), callbacks,
                   bar_frame(Configured(bar[b], width, serial), NewCallback))
    /\ UNCHANGED <<feedVars, cacheVars, blocks_btns, frame, lastClick, pointerVars, errorVars, restVars>>

\* layer_surface_cb on Configure(width, serial) for the layer surface of bar b
Configure(b, width, serial) ==
    /\ Alive # 1..MaxCallbacks
    /\ IF bar[b].hidden
       THEN UNCHANGED throttleVars
       ELSE FrameCalled("configure", b, Configured(bar[b], width, serial), callbacks,
                        bar_frame(Configured(bar[b], width, serial), NewCallback))
    /\ UNCHANGED <<feedVars, cacheVars, blocks_btns, frame, lastClick, pointerVars, errorVars, restVars>>

\* the closure of frame_with_cb forgetting to reset throttled
Unthrottled_keep(self) == [self EXCEPT !.throttle = None]

\* the bar the closure of frame_with_cb sets going again
Unthrottled(self) == [self EXCEPT !.throttle = None, !.throttled = FALSE]

\* The compositor sends done for the frame callback c: the closure given to
\* frame_with_cb runs.
CallbackDone(c) ==
    /\ \E p \in callbacks : p[1] = c
    /\ IF \E b \in Bars : bar[b].throttle = Some(c)
       THEN \E b \in Bars :
               \* Iterator::find: the first bar that waits for c
               /\ bar[b].throttle = Some(c)
               /\ \A d \in Bars : d < b => bar[d].throttle # Some(c)
               /\ IF bar[b].throttled
                  THEN FrameCalled("done", b, Unthrottled(bar[b]),
                                   {p \in callbacks : p[1] # c},
                                   bar_frame(Unthrottled(bar[b]), c))
                  ELSE /\ bar' = [bar EXCEPT ![b].throttle = None]
                       /\ callbacks' = {p \in callbacks : p[1] # c}
                       /\ UNCHANGED lastBarFrame
       ELSE /\ callbacks' = {p \in callbacks : p[1] # c}
            /\ UNCHANGED <<bar, lastBarFrame>>
    /\ UNCHANGED <<feedVars, cacheVars, blocks_btns, frame, lastClick, pointerVars, errorVars, restVars>>

BarInit ==
    /\ blocks_btns = << >>
    /\ frame = NoFrame
    /\ lastClick = NoClick
    /\ ThrottleInit

FrameApply(f) ==
    /\ frame' = f
    /\ blocks_btns' = f.buttons

FrameSorted(offset_left, full_width, grouped) ==
    \E deltas \in sorted_deltas(grouped) :
        FrameApply(render_blocks(computed, offset_left, full_width, grouped, deltas))

\* Bar::frame up to render_blocks: the blocks of the cache are laid out.
Frame(offset_left, full_width) ==
    /\ FrameSorted(offset_left, full_width, group(computed, 0, << >>))
    /\ UNCHANGED <<feedVars, cacheVars, lastClick, throttleVars, pointerVars, errorVars, restVars>>

\* Most regions a ButtonManager holds in the click runs.
MaxButtons == 2

\* Offsets, widths and click positions of the click runs, in tenths of a
\* pixel.
ButtonOffsets == {0, 100}

ButtonWidths == {50, 100}

ClickXs == {0, 50, 100, 149, 150, 200}

Payloads == {<<Some("a"), None>>, <<Some("b"), None>>}

\* ButtonManager::push on blocks_btns.
Push(x_offset, width, elem) ==
    /\ Len(blocks_btns) < MaxButtons
    /\ blocks_btns' = push(blocks_btns, x_offset, width, elem)
    /\ UNCHANGED <<feedVars, cacheVars, frame, lastClick, throttleVars, pointerVars,
                   errorVars, restVars>>

\* ButtonManager::clear on blocks_btns.
Clear ==
    /\ blocks_btns' = << >>
    /\ UNCHANGED <<feedVars, cacheVars, frame, lastClick, throttleVars, pointerVars,
                   errorVars, restVars>>

\* ButtonManager::click on blocks_btns.
Click(x) ==
    /\ lastClick' = [made |-> TRUE, buttons |-> blocks_btns, x |-> x,
                     ret |-> click(blocks_btns, x)]
    /\ UNCHANGED <<feedVars, cacheVars, frame, blocks_btns, throttleVars, pointerVars,
                   errorVars, restVars>>

----------------------------------------------------------------------------
(* pointer_btn.rs, the click path of state.rs and bar.rs, set_error        *)

\* linux/input-event-codes.h
BTN_LEFT == 272

BTN_RIGHT == 273

BTN_MIDDLE == 274

BTN_SIDE == 275

BTN_FORWARD == 277

BTN_BACK == 278

\* impl From<u32> for PointerBtn
PointerBtnFrom(code) ==
    IF code = BTN_LEFT THEN "Left"
    ELSE IF code = BTN_MIDDLE THEN "Middle"
    ELSE IF code = BTN_RIGHT THEN "Right"
    ELSE IF code = BTN_FORWARD THEN "Forward"
    ELSE IF code = BTN_BACK THEN "Back"
    ELSE "Unknown"

\* impl Serialize for PointerBtn with the numbers of Forward and Back
\* exchanged
PointerBtnSerialize_swapped(btn) ==
    CASE btn = "Left" -> 1 [] btn = "Middle" -> 2 [] btn = "Right" -> 3
      [] btn = "WheelUp" -> 4 [] btn = "WheelDown" -> 5
      [] btn = "Forward" -> 8 [] btn = "Back" -> 9 [] btn = "Unknown" -> 0

\* impl Serialize for PointerBtn
PointerBtnSerialize(btn) ==
    CASE btn = "Left" -> 1 [] btn = "Middle" -> 2 [] btn = "Right" -> 3
      [] btn = "WheelUp" -> 4 [] btn = "WheelDown" -> 5
      [] btn = "Forward" -> 9 [] btn = "Back" -> 8 [] btn = "Unknown" -> 0

\* Event { name, instance, button, ..Default::default() }
Event(name, instance, button) ==
    [name |-> name, instance |-> instance, button |-> button, modifiers |-> << >>,
     x |-> 0, y |-> 0, relative_x |-> 0, relative_y |-> 0,
     output_x |-> 0, output_y |-> 0, width |-> 0, height |-> 0]

\* serde_json::to_string(event): the members of the JSON object written
to_string(event) == [event EXCEPT !.button = PointerBtnSerialize(@)]

\* supports_clicks that holds whenever a header was seen
supports_clicks_any_header(self) == self.tag \in {"JsonNotStarted", "Json"}

\* Protocol::supports_clicks
supports_clicks(self) ==
    IF self.tag \in {"JsonNotStarted", "Json"} THEN self.header[1].click_events
    ELSE FALSE

\* StatusCmd::send_click_event: Ok or Err, and the line written if any;
\* writeln! fails when the status command no longer reads its stdin
send_click_event(self, open, event) ==
    IF supports_clicks(self)
    THEN IF open THEN [ok |-> TRUE, wrote |-> Some(to_string(event))]
         ELSE [ok |-> FALSE, wrote |-> None]
    ELSE [ok |-> TRUE, wrote |-> None]

\* the record of one send_click_event call: r is what it returned
SendRecord(self, event, r) ==
    [tag |-> self.tag, header |-> self.header, event |-> event,
     ok |-> r.ok, wrote |-> r.wrote]

\* ButtonManager::is_between
is_between(self, x) ==
    /\ \E i \in 1..Len(self) : self[i].x_off <= x
    /\ \E i \in 1..Len(self) : self[i].x_off + self[i].width >= x

\* Bar::click when the click is on a block: b is the payload found
bar_click_block(self, open, button, b) ==
    IF b # None
    THEN [hit |-> "block",
          sends |-> <<SendRecord(self, Event(b[1][1], b[1][2], button),
                                 send_click_event(self, open,
                                                  Event(b[1][1], b[1][2], button)))>>]
    ELSE [hit |-> "none", sends |-> << >>]

\* Bar::click: what was hit and the send_click_event calls made; the call
\* returns Err when one of them did
bar_click(tags, btns, self, open, button, x) ==
    IF click(tags, x) # None THEN [hit |-> "tag", sends |-> << >>]
    ELSE IF is_between(tags, x) THEN [hit |-> "between", sends |-> << >>]
    ELSE bar_click_block(self, open, button, click(btns, x))

\* where Bar::click sends a click at x that looks at the blocks before it
\* asks whether x is between tags
click_target_blocks_first(tags, btns, x) ==
    IF click(tags, x) # None
    THEN [to |-> "tag", tag |-> click(tags, x), block |-> None]
    ELSE IF click(btns, x) # None
    THEN [to |-> "block", tag |-> None, block |-> click(btns, x)]
    ELSE IF is_between(tags, x)
    THEN [to |-> "wm", tag |-> None, block |-> None]
    ELSE [to |-> "none", tag |-> None, block |-> None]

\* where Bar::click sends a click at x: to click_on_tag with the tag found,
\* to click_on_tag with no tag, to the block found, or nowhere
click_target(tags, btns, x) ==
    IF click(tags, x) # None
    THEN [to |-> "tag", tag |-> click(tags, x), block |-> None]
    ELSE IF is_between(tags, x)
    THEN [to |-> "wm", tag |-> None, block |-> None]
    ELSE IF click(btns, x) # None
    THEN [to |-> "block", tag |-> None, block |-> click(btns, x)]
    ELSE [to |-> "none", tag |-> None, block |-> None]

\* the send_click_event calls of Bar::click: status_cmd is ss.status_cmd,
\* None or the protocol state of the command and whether it reads its stdin
click_sends(target, status_cmd, button) ==
    IF target.to = "block" /\ status_cmd # None
    THEN bar_click_block(status_cmd[1].protocol, status_cmd[1].open, button,
                         target.block).sends
    ELSE << >>

\* The tags of a bar: the gap left of a tag that is not joined to the one
\* before it (tags_margin) and the width of a tag label; the id of a tag is
\* its position.
TagMargins == {0, 20}

TagWidths == {50}

\* Most tags of a bar.
MaxTags == 3

\* The click positions of Bar::click.
RouteXs == {25, 60, 110, 130, 160, 250}

\* Bar::frame displays one more tag: its region goes to tags_btns
PushTag(margin, width) ==
    /\ Len(tags_btns) < MaxTags
    /\ tags_btns' = push(tags_btns,
                         IF tags_btns = << >> THEN 0
                         ELSE tags_btns[Len(tags_btns)].x_off
                              + tags_btns[Len(tags_btns)].width + margin,
                         width, Len(tags_btns) + 1)
    /\ UNCHANGED <<feedVars, cacheVars, barVars, errorVars, restVars, seat, inputOpen,
                   panicked, lastFrame, pendingCode>>

\* Bar::set_tags: self.tags_btns.clear()
ClearTags ==
    /\ tags_btns' = << >>
    /\ UNCHANGED <<feedVars, cacheVars, barVars, errorVars, restVars, seat, inputOpen,
                   panicked, lastFrame, pendingCode>>

RouteApply(status_cmd, button, x, target) ==
    lastRoute' = [made |-> TRUE, tags |-> tags_btns, btns |-> blocks_btns,
                  status_cmd |-> status_cmd, x |-> x, button |-> button,
                  to |-> target.to, tag |-> target.tag, block |-> target.block,
                  sends |-> click_sends(target, status_cmd, button)]

\* Bar::click at x; has_cmd says whether a status command is configured
BarClick(has_cmd, button, x) ==
    /\ RouteApply(IF has_cmd THEN Some([protocol |-> protocol, open |-> inputOpen])
                  ELSE None,
                  button, x, click_target(tags_btns, blocks_btns, x))
    /\ UNCHANGED <<feedVars, cacheVars, barVars, pointerVars, errorVars, loopVars, wmVars>>

\* ScrollFrame::default()
NoScroll == [stop |-> FALSE, absolute |-> 0, is_finder |-> FALSE]

\* Config::default().invert_touchpad_scrolling
invert_touchpad_scrolling == TRUE

\* pending_scroll after the scroll of the frame is added
scrolled(pending_scroll, scroll) ==
    IF scroll.stop THEN 0
    ELSE IF scroll.is_finder /\ invert_touchpad_scrolling
         THEN pending_scroll - scroll.absolute
    ELSE pending_scroll + scroll.absolute

\* scroll_button that asks for more than 15
scroll_button_strict(pending_scroll) ==
    IF pending_scroll > 15 THEN Some("WheelDown")
    ELSE IF pending_scroll < -15 THEN Some("WheelUp")
    ELSE None

\* the button a scroll of that much stands for
scroll_button(pending_scroll) ==
    IF pending_scroll >= 15 THEN Some("WheelDown")
    ELSE IF pending_scroll <= -15 THEN Some("WheelUp")
    ELSE None

\* Largest scroll, in either direction, gathered between two frames.
MaxScroll == 15

\* The pointer positions, the axis values and the button codes the
\* compositor sends.
PointerXs == {25, 120, 160}

AxisValues == {15, -15}

\* Axis values smaller than a wheel click.
ScrollValues == {5, -10}

ButtonCodes == {BTN_LEFT, BTN_RIGHT, BTN_MIDDLE, BTN_SIDE, BTN_FORWARD, BTN_BACK}

\* the tag region and the block regions of the bar the pointer is on
TagRegions == <<[x_off |-> 0, width |-> 50, elem |-> 1]>>

BlockRegions ==
    <<[x_off |-> 100, width |-> 50, elem |-> <<Some("a"), None>>],
      [x_off |-> 150, width |-> 50, elem |-> <<Some("b"), Some("i")>>]>>


NoPointerFrame == [made |-> FALSE, x |-> 0, clicks |-> << >>, sends |-> << >>]

StateInit ==
    /\ seat = [cur_surface |-> FALSE, x |-> 0, pending_button |-> None,
               pending_scroll |-> 0, scroll_frame |-> NoScroll]
    /\ tags_btns = << >>
    /\ inputOpen = TRUE
    /\ panicked = FALSE
    /\ lastFrame = NoPointerFrame
    /\ pendingCode = 0
    /\ redraw = [b \in Bars |-> FALSE]
    /\ lastError = [made |-> FALSE, text |-> << >>, drawn |-> {}]

\* wl_pointer Enter
Enter(x) ==
    /\ ~panicked
    /\ seat' = [seat EXCEPT !.cur_surface = TRUE, !.x = x]
    /\ UNCHANGED <<feedVars, cacheVars, barVars, errorVars, restVars, tags_btns, inputOpen,
                   panicked, lastFrame, pendingCode>>

\* wl_pointer Leave
Leave ==
    /\ ~panicked
    /\ seat' = [seat EXCEPT !.cur_surface = FALSE]
    /\ UNCHANGED <<feedVars, cacheVars, barVars, errorVars, restVars, tags_btns, inputOpen,
                   panicked, lastFrame, pendingCode>>

\* wl_pointer Motion
Motion(x) ==
    /\ ~panicked
    /\ seat' = [seat EXCEPT !.x = x]
    /\ UNCHANGED <<feedVars, cacheVars, barVars, errorVars, restVars, tags_btns, inputOpen,
                   panicked, lastFrame, pendingCode>>

\* wl_pointer Button that does not look at the button state
Button_any(code, pressed) ==
    /\ ~panicked
    /\ seat' = [seat EXCEPT !.pending_button = Some(PointerBtnFrom(code))]
    /\ pendingCode' = code
    /\ UNCHANGED <<feedVars, cacheVars, barVars, errorVars, restVars, tags_btns, inputOpen,
                   panicked, lastFrame>>

\* wl_pointer Button
Button(code, pressed) ==
    /\ ~panicked
    /\ seat' = IF pressed THEN [seat EXCEPT !.pending_button = Some(PointerBtnFrom(code))]
               ELSE seat
    /\ pendingCode' = IF pressed THEN code ELSE pendingCode
    /\ UNCHANGED <<feedVars, cacheVars, barVars, errorVars, restVars, tags_btns, inputOpen,
                   panicked, lastFrame>>

\* wl_pointer Axis on the vertical axis
Axis(value) ==
    /\ ~panicked
    /\ seat.scroll_frame.absolute + value \in (0 - MaxScroll)..MaxScroll
    /\ seat' = [seat EXCEPT !.scroll_frame.absolute = @ + value]
    /\ UNCHANGED <<feedVars, cacheVars, barVars, errorVars, restVars, tags_btns, inputOpen,
                   panicked, lastFrame, pendingCode>>

\* wl_pointer AxisSource
AxisSource(finger) ==
    /\ ~panicked
    /\ seat' = [seat EXCEPT !.scroll_frame.is_finder = finger]
    /\ UNCHANGED <<feedVars, cacheVars, barVars, errorVars, restVars, tags_btns, inputOpen,
                   panicked, lastFrame, pendingCode>>

\* wl_pointer AxisStop on the vertical axis
AxisStop ==
    /\ ~panicked
    /\ seat' = [seat EXCEPT !.scroll_frame.stop = TRUE]
    /\ UNCHANGED <<feedVars, cacheVars, barVars, errorVars, restVars, tags_btns, inputOpen,
                   panicked, lastFrame, pendingCode>>

\* The status command closes its standard input.
CloseInput ==
    /\ ~panicked
    /\ inputOpen
    /\ inputOpen' = FALSE
    /\ UNCHANGED <<feedVars, cacheVars, barVars, errorVars, restVars, seat, tags_btns, panicked,
                   lastFrame, pendingCode>>

\* the sends of a click all returned Ok
AllOk(c) == \A i \in 1..Len(c.sends) : c.sends[i].ok

\* the second click of the frame handler: sb is the button the scroll
\* stands for, made only when the first click did not panic
frame_scroll_click(first, sb, x) ==
    IF AllOk(first) /\ sb # None
    THEN bar_click(tags_btns, blocks_btns, protocol, inputOpen, sb[1], x)
    ELSE [hit |-> "none", sends |-> << >>]

\* the frame handler's outcome: first and second are the two clicks
FrameOutcome(btn, sb, scroll, first, second) ==
    /\ lastFrame' = [made |-> TRUE, x |-> seat.x,
                     clicks |-> (IF btn # None THEN <<btn[1]>> ELSE << >>)
                                \o (IF AllOk(first) /\ sb # None THEN <<sb[1]>> ELSE << >>),
                     sends |-> first.sends \o second.sends]
    /\ panicked' = ~(AllOk(first) /\ AllOk(second))
    /\ seat' = [seat EXCEPT !.pending_button = None, !.scroll_frame = NoScroll,
                            !.pending_scroll = IF sb # None THEN 0 ELSE scroll]

FrameClicks(btn, sb, scroll, first) ==
    FrameOutcome(btn, sb, scroll, first, frame_scroll_click(first, sb, seat.x))

FrameOnBar(btn, scroll) ==
    FrameClicks(btn, scroll_button(scroll), scroll,
                IF btn # None
                THEN bar_click(tags_btns, blocks_btns, protocol, inputOpen, btn[1], seat.x)
                ELSE [hit |-> "none", sends |-> << >>])

\* wl_pointer Frame: the pending button and the scroll of the frame are
\* taken and, on a bar, turned into clicks; a click that returns Err is
\* unwrapped
PointerFrame ==
    /\ ~panicked
    /\ IF seat.cur_surface
       THEN FrameOnBar(seat.pending_button, scrolled(seat.pending_scroll, seat.scroll_frame))
       ELSE /\ seat' = [seat EXCEPT !.pending_button = None, !.scroll_frame = NoScroll]
            /\ lastFrame' = [NoPointerFrame EXCEPT !.made = TRUE, !.x = seat.x]
            /\ UNCHANGED panicked
    /\ pendingCode' = 0
    /\ UNCHANGED <<feedVars, cacheVars, barVars, errorVars, restVars, tags_btns, inputOpen>>

\* State::draw_all: every bar is asked for a frame
draw_all == [b \in Bars |-> TRUE]

\* set_blocks that stores the blocks and asks for no frame
set_blocks_no_draw(self, new) == [self EXCEPT !.blocks = new]

\* State::set_blocks: self is the blocks shown and the frames asked for
set_blocks(self, new) == [blocks |-> new, redraw |-> draw_all]

\* State::set_error
set_error(self, error) == set_blocks(self, <<DefaultBlock(error)>>)

\* The texts of the errors reported in the runs.
ErrorTexts == {<<"x">>, <<"x", "x">>, <<"x", "x", "x">>}

SetBlocksApply(r) ==
    /\ blocks' = r.blocks
    /\ redraw' = r.redraw

\* State::set_error called with the text error.
SetError(error) ==
    /\ SetBlocksApply(set_error([blocks |-> blocks, redraw |-> redraw], error))
    /\ lastError' = [made |-> TRUE, text |-> error, drawn |-> {}]
    /\ UNCHANGED <<sent, pipe, protocol, buf, failed, lastCall, lastTake, decoded, held>>
    /\ UNCHANGED <<cacheVars, barVars, pointerVars, restVars>>

\* A bar draws the frame it was asked for.
DrawFrame(b) ==
    /\ redraw[b]
    /\ redraw' = [redraw EXCEPT ![b] = FALSE]
    /\ lastError' = [lastError EXCEPT !.drawn = @ \cup {b}]
    /\ UNCHANGED <<feedVars, cacheVars, barVars, pointerVars, restVars>>

----------------------------------------------------------------------------
(* The status command and status_cmd.rs                                    *)

\* What the status command may hand to one write(): pieces of a well-formed
\* feed and pieces that are not.
Writes ==
    { <<"H1", "}", "[">>, <<"H1", "}", "\n">>, <<"H2", "}">>,
      <<"[", "a", "]">>, <<",", "[", "b", "]">>, <<"x", "\n">> }

NoCall == [made |-> FALSE, pre |-> Unknown, input |-> << >>, ok |-> TRUE,
           rem |-> << >>, post |-> Unknown]

NoTake == [made |-> FALSE, fresh |-> FALSE, pre |-> Unknown, ret |-> None]

RECURSIVE AllSnapshots(_, _)
\* one turn of AllSnapshots: r is what de_first_json returned
AllSnapshotsStep(acc, r) ==
    IF r.kind = "some" THEN AllSnapshots(r.rem, Append(acc, r.obj[1]))
    ELSE [snaps |-> acc, stop |-> r.kind, rest |-> r.rem]

\* Every snapshot that de_first_json decodes from s, front to back, and
\* where the decoding stops.
AllSnapshots(s, acc) == AllSnapshotsStep(acc, de_first_json("VecBlock", s))

FeedInit ==
    /\ sent = << >>
    /\ pipe = << >>
    /\ protocol = Unknown
    /\ buf = << >>
    /\ failed = FALSE
    /\ blocks = << >>
    /\ lastCall = NoCall
    /\ lastTake = NoTake
    /\ decoded = << >>
    /\ held = 0

\* The status command writes w to its standard output.
Write(w) ==
    /\ Len(sent) + Len(w) <= MaxStream
    /\ sent' = sent \o w
    /\ pipe' = pipe \o w
    /\ UNCHANGED <<protocol, buf, failed, blocks, lastCall, lastTake, decoded, held>>
    /\ UNCHANGED <<cacheVars, barVars, pointerVars, errorVars, restVars>>

\* The record of one process_new_bytes call: r is what it returned.
CallRecord(input, r) ==
    [made |-> TRUE, pre |-> protocol, input |-> input, ok |-> r.ok,
     rem |-> r.rem, post |-> r.protocol]

Call(input) == CallRecord(input, process_new_bytes(protocol, input))

\* The snapshots completed so far since the last get_blocks, after call c.
Decoded(c, before) ==
    IF c.pre.tag = "Json" /\ c.ok
    THEN before \o AllSnapshots(c.input, << >>).snaps
    ELSE before

\* self.buf that is extended by the new bytes and never drained
keep_unused_all(self_buf, input, rem) ==
    IF self_buf = << >> THEN self_buf \o rem
    ELSE IF rem = << >> THEN << >>
    ELSE input

\* self.buf after a successful process_new_bytes(input) that returned rem:
\* the remainder is appended to an empty buf; a buf that was not empty was
\* extended to input before the call and loses the used front afterwards
keep_unused(self_buf, input, rem) ==
    IF self_buf = << >> THEN self_buf \o rem
    ELSE IF rem = << >> THEN << >>
    ELSE Drop(input, Len(input) - Len(rem))

\* notify_available after process_new_bytes: c is the call made, g what
\* get_blocks returns after it.
NotifyResult(n, c, g) ==
    /\ lastCall' = c
    /\ IF c.ok
       THEN /\ buf' = keep_unused(buf, c.input, c.rem)
            /\ pipe' = Drop(pipe, n)
            /\ protocol' = g.protocol
            /\ lastTake' = [made |-> TRUE, fresh |-> TRUE, pre |-> c.post, ret |-> g.ret]
            /\ IF g.ret # None
               THEN SetBlocksApply(set_blocks([blocks |-> blocks, redraw |-> redraw],
                                              g.ret[1]))
               ELSE UNCHANGED <<blocks, redraw>>
            /\ decoded' = << >>
            /\ failed' = FALSE
            /\ held' = 0
       ELSE /\ buf' = IF buf = << >> THEN buf ELSE c.input
            /\ protocol' = c.post
            /\ failed' = TRUE
            /\ held' = n
            /\ UNCHANGED <<pipe, lastTake, blocks, decoded, redraw>>

NotifyCall(n, c) == NotifyResult(n, c, get_blocks(c.post))

\* StatusCmd::notify_available with fill_buf returning the first n bytes of
\* the pipe, and State::status_cmd_notify_available's set_blocks.
NotifyAvailable(n) ==
    /\ ~failed
    /\ n \in 1..Len(pipe)
    /\ NotifyCall(n, Call(IF buf = << >> THEN SubSeq(pipe, 1, n)
                          ELSE buf \o SubSeq(pipe, 1, n)))
    /\ UNCHANGED <<sent, cacheVars, barVars, pointerVars, lastError, restVars>>

ProcessResult(n, c) ==
    /\ lastCall' = c
    /\ protocol' = c.post
    /\ decoded' = Decoded(c, decoded)
    /\ failed' = ~c.ok
    /\ IF c.ok
       THEN buf' = c.rem /\ pipe' = Drop(pipe, n)
       ELSE buf' = c.input /\ pipe' = pipe

\* Protocol::process_new_bytes called by a client that keeps the returned
\* remainder and prepends it to the next n bytes (n = 0: a spurious call).
ProcessNewBytes(n) ==
    /\ ~failed
    /\ n \in 0..Len(pipe)
    /\ ProcessResult(n, Call(buf \o SubSeq(pipe, 1, n)))
    /\ lastTake' = [lastTake EXCEPT !.fresh = FALSE]
    /\ UNCHANGED <<sent, blocks, held, cacheVars, barVars, pointerVars, errorVars, restVars>>

TakeResult(g) ==
    /\ protocol' = g.protocol
    /\ lastTake' = [made |-> TRUE, fresh |-> TRUE, pre |-> protocol, ret |-> g.ret]
    /\ blocks' = IF g.ret # None THEN g.ret[1] ELSE blocks

\* Protocol::get_blocks called by that client.
GetBlocks ==
    /\ TakeResult(get_blocks(protocol))
    /\ decoded' = << >>
    /\ UNCHANGED <<sent, pipe, buf, failed, lastCall, held, cacheVars, barVars, pointerVars,
                   errorVars, restVars>>

-----------------------------------------------------------------------------
(* The event loop and event_loop.rs                                        *)

\* The file descriptors callbacks are registered for.
Fds == {1, 2, 3}

\* Most on-idle callbacks added.
MaxIdle == 3

\* Most iterations of the loop of EventLoop::run.
MaxIterations == 2

\* What a callback returns: Ok(Action::Keep), Ok(Action::Unregister), Err.
\* What run returns is written as a pair: <<"Ok", 0>>, the error of poll
\* <<"poll", 0>>, or the error of a callback, <<"fd", fd>> or <<"idle", cb>>.
Returns == {"Keep", "Unregister", "Err"}

\* EventLoop::new, run not called yet
LoopInit ==
    /\ eventLoop = [cbs |-> {}, on_idle |-> << >>, pc |-> "new", pollfds |-> << >>,
                    next |-> 1, draining |-> << >>, on_idle_scratch |-> << >>,
                    result |-> None]
    /\ iteration = [n |-> 0, idle |-> << >>, log |-> << >>, unregistered |-> {}]

\* no Bar::click call made yet
NoRoute ==
    [made |-> FALSE, tags |-> << >>, btns |-> << >>, status_cmd |-> None, x |-> 0,
     button |-> "Unknown", to |-> "none", tag |-> None, block |-> None, sends |-> << >>]

-----------------------------------------------------------------------------
(* wm_info_provider/river.rs and wm_info_provider/niri.rs                  *)

\* The bits of a u32.
Bits == 0..31

\* mask >> 1
ShiftRight(mask) == {b - 1 : b \in mask \ {0}}

\* mask << 1 on a u32: the bit shifted out of bit 31 is lost
ShiftLeft(mask) == {b + 1 : b \in mask \ {31}}

\* 0x8000_0001
EndBits == {0, 31}

\* the mask of a wheel click without the test for 0
wheel_tags_plain(focused, btn) ==
    IF btn = "WheelUp" THEN ShiftRight(focused) ELSE ShiftLeft(focused)

\* RiverInfoProvider::click_on_tag for WheelUp and WheelDown: the mask given
\* to set_focused_tags
wheel_tags(focused, btn) ==
    IF (IF btn = "WheelUp" THEN ShiftRight(focused) ELSE ShiftLeft(focused)) = {}
    THEN (IF btn = "WheelUp" THEN ShiftRight(focused) ELSE ShiftLeft(focused))
         \cup (focused \cap EndBits)
    ELSE IF btn = "WheelUp" THEN ShiftRight(focused) ELSE ShiftLeft(focused)

\* The bits the masks of the runs are made of.
TagBits == {0, 1, 16, 30, 31}

NoCommand == [made |-> FALSE, btn |-> "WheelUp", from |-> {}, tags |-> {}]

\* a new OutputStatus and no wheel click yet
RiverInit ==
    /\ focused_tags = {}
    /\ command = NoCommand

\* output_status_cb on FocusedTags(tags)
FocusedTags(tags) ==
    /\ focused_tags' = tags
    /\ UNCHANGED <<feedVars, cacheVars, barVars, pointerVars, errorVars, loopVars,
                   lastRoute, command, workspaces, lastNiri>>

\* click_on_tag with a wheel button on an output the provider has a status
\* of: set_focused_tags with the mask of wheel_tags
WheelOnTags(btn) ==
    /\ command' = [made |-> TRUE, btn |-> btn, from |-> focused_tags,
                   tags |-> wheel_tags(focused_tags, btn)]
    /\ UNCHANGED <<feedVars, cacheVars, barVars, pointerVars, errorVars, loopVars,
                   lastRoute, focused_tags, workspaces, lastNiri>>

NextRiver ==
    \/ \E tags \in SUBSET TagBits : FocusedTags(tags)
    \/ \E btn \in {"WheelUp", "WheelDown"} : WheelOnTags(btn)

\* The ids and outputs of the workspaces niri announces and the ids of the
\* WorkspaceActivated events (3 is an id niri never announced).
WorkspaceIds == {1, 2}

EventIds == {1, 2, 3}

Outputs == {"A", "B"}

\* IpcWorkspace, without name and is_focused, which niri_cb leaves alone; the
\* workspace with the greater id has the smaller idx, so sorting reorders
IpcWorkspace(id, output, is_active) ==
    [id |-> id, idx |-> Max(WorkspaceIds) + 1 - id, output |-> output,
     is_active |-> is_active]

IpcWorkspaces ==
    {IpcWorkspace(id, output, is_active) :
        id \in WorkspaceIds, output \in Outputs, is_active \in BOOLEAN}

\* the lists of a WorkspacesChanged event: no id twice
WorkspaceLists ==
    {ws \in UNION {[1..n -> IpcWorkspaces] : n \in 0..Cardinality(WorkspaceIds)} :
        \A i, j \in DOMAIN ws : ws[i].id = ws[j].id => i = j}

\* IpcEvent
IpcEvents ==
    {[tag |-> "WorkspacesChanged", workspaces |-> ws, id |-> 0] : ws \in WorkspaceLists}
    \cup {[tag |-> "WorkspaceActivated", workspaces |-> << >>, id |-> id] : id \in EventIds}
    \cup {[tag |-> "Ok", workspaces |-> << >>, id |-> 0]}

\* Vec::sort_by_key(|w| w.idx): a stable sort, here by insertion
RECURSIVE sort_by_key(_)
sort_by_key(ws) ==
    IF ws = << >> THEN << >>
    ELSE LET sorted == sort_by_key(SubSeq(ws, 1, Len(ws) - 1))
             last   == ws[Len(ws)]
             at     == Cardinality({i \in DOMAIN sorted : sorted[i].idx <= last.idx})
         IN  SubSeq(sorted, 1, at) \o <<last>> \o SubSeq(sorted, at + 1, Len(sorted))

\* Iterator::position: the first index the test holds at
position(found) ==
    IF found = {} THEN None ELSE Some(CHOOSE i \in found : \A j \in found : i <= j)

\* one turn of the loop of niri_cb on an event; self is the provider's
\* workspaces and the local updated
niri_event(self, event) ==
    IF event.tag = "WorkspacesChanged"
    THEN [workspaces |-> sort_by_key(event.workspaces), updated |-> TRUE]
    ELSE IF event.tag = "WorkspaceActivated"
    THEN LET new_active ==
                 position({i \in DOMAIN self.workspaces :
                              self.workspaces[i].id = event.id})
         IN  IF new_active = None THEN self
             ELSE LET previous_active ==
                          position({i \in DOMAIN self.workspaces :
                                       /\ self.workspaces[i].is_active
                                       /\ self.workspaces[i].output
                                            = self.workspaces[new_active[1]].output})
                  IN  IF previous_active = None THEN self
                      ELSE [workspaces |->
                                [[self.workspaces
                                    EXCEPT ![previous_active[1]].is_active = FALSE]
                                    EXCEPT ![new_active[1]].is_active = TRUE],
                            updated |-> TRUE]
    ELSE self

\* no niri_cb call yet; running tells that a call is inside its loop, updated
\* is the local of that call
NoNiri ==
    [made |-> FALSE, running |-> FALSE,
     event |-> [tag |-> "Ok", workspaces |-> << >>, id |-> 0],
     before |-> << >>, was |-> FALSE, after |-> << >>, updated |-> FALSE,
     end |-> "none", tags_updated |-> FALSE]

\* NiriInfoProvider::new
NiriInit ==
    /\ workspaces = << >>
    /\ lastNiri = NoNiri

\* niri_cb, one turn of its loop: next_event returns an event (the first turn
\* of a call starts with updated = false)
NiriNextEvent(event) ==
    LET self == [workspaces |-> workspaces,
                 updated |-> lastNiri.running /\ lastNiri.updated]
    IN  /\ workspaces' = niri_event(self, event).workspaces
        /\ lastNiri' = [made |-> TRUE, running |-> TRUE, event |-> event,
                        before |-> workspaces, was |-> self.updated,
                        after |-> niri_event(self, event).workspaces,
                        updated |-> niri_event(self, event).updated,
                        end |-> "none", tags_updated |-> FALSE]
        /\ UNCHANGED <<feedVars, cacheVars, barVars, pointerVars, errorVars, loopVars,
                       lastRoute, focused_tags, command>>

\* niri_cb, the end of its loop: next_event fails with WouldBlock
\* (tags_updated is called when updated) or with another error (niri_cb
\* returns it at once)
NiriReturn(end) ==
    /\ lastNiri' = [lastNiri EXCEPT
                        !.running = FALSE,
                        !.end = end,
                        !.tags_updated = /\ lastNiri.running
                                         /\ lastNiri.updated
                                         /\ end = "WouldBlock"]
    /\ UNCHANGED <<feedVars, cacheVars, barVars, pointerVars, errorVars, loopVars,
                   lastRoute, focused_tags, command, workspaces>>

NextNiri ==
    \/ \E event \in IpcEvents : NiriNextEvent(event)
    \/ \E end \in {"WouldBlock", "Err"} : NiriReturn(end)

RestInit == LoopInit /\ lastRoute = NoRoute /\ RiverInit /\ NiriInit

LoopStep(self, it) ==
    /\ eventLoop' = self
    /\ iteration' = it
    /\ UNCHANGED <<feedVars, cacheVars, barVars, pointerVars, errorVars, lastRoute, wmVars>>

\* EventLoop::register_with_fd
RegisterWithFd(fd) ==
    /\ eventLoop.pc = "new"
    /\ LoopStep([eventLoop EXCEPT !.cbs = @ \cup {fd}], iteration)

\* EventLoop::add_on_idle: the callbacks are named 1, 2, ... as they are added
AddOnIdle ==
    /\ eventLoop.pc = "new"
    /\ Len(eventLoop.on_idle) < MaxIdle
    /\ LoopStep([eventLoop EXCEPT !.on_idle = Append(@, Len(@) + 1)], iteration)

\* EventLoop::run is called
Run ==
    /\ eventLoop.pc = "new"
    /\ LoopStep([eventLoop EXCEPT !.pc = "while"], iteration)

\* The orders in which HashMap::keys may give the descriptors.
KeyOrders(cbs) ==
    {q \in UNION {[1..n -> cbs] : n \in {Cardinality(cbs)}} :
        \A j, k \in DOMAIN q : j # k => q[j] # q[k]}

\* the pollfd of fd, with events POLLIN and revents 0
NewPollfd(fd) == [fd |-> fd, revents |-> 0]

\* The head of the while loop: return Ok(()) when no descriptor callback is
\* left, else fill pollfds from the keys of cbs.
While ==
    /\ eventLoop.pc = "while"
    /\ IF eventLoop.cbs = {}
       THEN LoopStep([eventLoop EXCEPT !.pc = "done", !.result = Some(<<"Ok", 0>>)], iteration)
       ELSE /\ iteration.n < MaxIterations
            /\ \E q \in KeyOrders(eventLoop.cbs) :
                  LoopStep([eventLoop EXCEPT !.pc = "poll",
                                             !.pollfds = [k \in DOMAIN q |-> NewPollfd(q[k])]],
                           [iteration EXCEPT !.n = @ + 1, !.idle = eventLoop.on_idle,
                                             !.log = << >>])

\* pollfds after poll found the descriptors of ready readable
Polled(pollfds, ready) ==
    [k \in DOMAIN pollfds |->
        [pollfds[k] EXCEPT !.revents = IF pollfds[k].fd \in ready THEN 1 ELSE 0]]

\* libc::poll without a timeout: it fails with EINTR and is called again, it
\* fails otherwise and run returns the error, or it reports the events of
\* some descriptors.
Poll ==
    /\ eventLoop.pc = "poll"
    /\ \/ UNCHANGED vars
       \/ LoopStep([eventLoop EXCEPT !.pc = "done", !.result = Some(<<"poll", 0>>)], iteration)
       \/ \E ready \in SUBSET {eventLoop.pollfds[k].fd : k \in DOMAIN eventLoop.pollfds} :
             /\ ready # {}
             /\ LoopStep([eventLoop EXCEPT !.pc = "for",
                                           !.pollfds = Polled(eventLoop.pollfds, ready),
                                           !.next = 1], iteration)

\* the test of revents that takes every descriptor as ready
IsReady_any(pollfd) == TRUE

\* fd.revents != 0
IsReady(pollfd) == pollfd.revents # 0

\* a callback was invoked and returned ret
Invoked(it, kind, cb, ret) ==
    [it EXCEPT !.log = Append(@, [kind |-> kind, cb |-> cb, ret |-> ret,
                                  again |-> <<kind, cb>> \in it.unregistered]),
               !.unregistered = IF ret = "Unregister" THEN @ \cup {<<kind, cb>>} ELSE @]

\* where run goes on after the pollfd at position next
AfterPollfd(self) ==
    IF self.next < Len(self.pollfds)
    THEN [self EXCEPT !.next = @ + 1]
    ELSE [self EXCEPT !.pc = "idle", !.draining = self.on_idle, !.on_idle = << >>]

\* cbs after the callback of fd, removed for the call, returned ret
AfterCallback(cbs, fd, ret) == IF ret = "Keep" THEN (cbs \ {fd}) \cup {fd} ELSE cbs \ {fd}

\* The body of `for fd in &pollfds` for one pollfd.
ForPollfd ==
    /\ eventLoop.pc = "for"
    /\ IF IsReady(eventLoop.pollfds[eventLoop.next])
       THEN \E ret \in Returns :
               LoopStep(
                   IF ret = "Err"
                   THEN [eventLoop EXCEPT
                            !.cbs = @ \ {eventLoop.pollfds[eventLoop.next].fd},
                            !.pc = "done",
                            !.result = Some(<<"fd", eventLoop.pollfds[eventLoop.next].fd>>)]
                   ELSE AfterPollfd([eventLoop EXCEPT
                            !.cbs = AfterCallback(@, eventLoop.pollfds[eventLoop.next].fd, ret)]),
                   Invoked(iteration, "fd", eventLoop.pollfds[eventLoop.next].fd, ret))
       ELSE LoopStep(AfterPollfd(eventLoop), iteration)

\* on_idle_scratch with the callbacks kept pushed at the front
keep_idle_front(on_idle_scratch, cb, ret) ==
    IF ret = "Keep" THEN <<cb>> \o on_idle_scratch ELSE on_idle_scratch

\* on_idle_scratch after the on-idle callback cb returned Ok(ret)
keep_idle(on_idle_scratch, cb, ret) ==
    IF ret = "Keep" THEN Append(on_idle_scratch, cb) ELSE on_idle_scratch

\* The body of `for mut cb in self.on_idle.drain(..)` for one callback; on
\* an error the Drain is dropped, which removes the callbacks not reached,
\* with the scratch vector.
ForIdle ==
    /\ eventLoop.pc = "idle"
    /\ eventLoop.draining # << >>
    /\ \E ret \in Returns :
          LoopStep(
              IF ret = "Err"
              THEN [eventLoop EXCEPT !.draining = << >>, !.on_idle_scratch = << >>,
                                     !.pc = "done",
                                     !.result = Some(<<"idle", Head(eventLoop.draining)>>)]
              ELSE [eventLoop EXCEPT
                       !.draining = Tail(@),
                       !.on_idle_scratch = keep_idle(@, Head(eventLoop.draining), ret)],
              Invoked(iteration, "idle", Head(eventLoop.draining), ret))

\* self.on_idle.append(&mut on_idle_scratch), and back to the loop head
AppendScratch ==
    /\ eventLoop.pc = "idle"
    /\ eventLoop.draining = << >>
    /\ LoopStep([eventLoop EXCEPT !.on_idle = @ \o eventLoop.on_idle_scratch,
                                  !.on_idle_scratch = << >>, !.pc = "while"], iteration)

NextLoop ==
    \/ \E fd \in Fds : RegisterWithFd(fd)
    \/ AddOnIdle
    \/ Run
    \/ While
    \/ Poll
    \/ ForPollfd
    \/ ForIdle
    \/ AppendScratch

Init == FeedInit /\ CacheInit /\ BarInit /\ StateInit /\ RestInit

Next ==
    \/ \E w \in Writes : Write(w)
    \/ \E n \in 1..Len(pipe) : NotifyAvailable(n)

\* The status command read through StatusCmd::notify_available.
Spec == Init /\ [][Next]_vars

\* Longest buffer StatusCmd gathers over failed calls.
MaxBuf == 12

\* StatusCmd::notify_available called again after it failed: the bytes of
\* the failed call were not consumed, so fill_buf returns them again.
NotifyAgain ==
    /\ failed
    /\ held >= 1
    /\ Len(buf) + held <= MaxBuf
    /\ NotifyCall(held, Call(IF buf = << >> THEN SubSeq(pipe, 1, held)
                             ELSE buf \o SubSeq(pipe, 1, held)))
    /\ UNCHANGED <<sent, cacheVars, barVars, pointerVars, lastError, restVars>>

NextRetry ==
    \/ \E w \in Writes : Write(w)
    \/ \E n \in 1..Len(pipe) : NotifyAvailable(n)
    \/ NotifyAgain

\* The status command read through StatusCmd::notify_available by a caller
\* that calls again after a failure.
SpecRetry == Init /\ [][NextRetry]_vars

\* What a status command whose blocks carry an extra key writes.
SchemaWrites ==
    { <<"H1", "}", "[">>, <<"[", "u", "]">>, <<",", "[", "a", "]">>,
      <<"[", "a", ",", "u", "]">>, <<"x">> }

NextSchema ==
    \/ \E w \in SchemaWrites : Write(w)
    \/ \E n \in 1..Len(pipe) : NotifyAvailable(n)

\* The status command with extra keys read through notify_available.
SpecSchema == Init /\ [][NextSchema]_vars

NextThrottle ==
    \/ \E b \in Bars : Show(b)
    \/ \E b \in Bars : Hide(b)
    \/ \E b \in Bars, width \in Widths, serial \in Serials :
          Configure(b, width, serial)
    \/ \E b \in Bars : BarFrame(b)
    \/ \E c \in 1..MaxCallbacks : CallbackDone(c)

\* EventLoop::run with callbacks that keep, unregister or fail.
SpecLoop == Init /\ [][NextLoop]_vars

\* The bars shown, hidden, configured and drawn under frame callbacks.
SpecThrottle == Init /\ [][NextThrottle]_vars

NextProtocol ==
    \/ \E w \in Writes : Write(w)
    \/ \E n \in 0..Len(pipe) : ProcessNewBytes(n)
    \/ GetBlocks

\* The Protocol object under any order of its two operations.
SpecProtocol == Init /\ [][NextProtocol]_vars

NextCache == \E new \in ListsOf(CacheBlocks, MaxCacheLen) : ProcessNewBlocks(new)

\* The block cache under any sequence of block lists.
SpecCache == Init /\ [][NextCache]_vars

\* The bar after the first list of blocks has reached the cache.
LayoutInit ==
    /\ FeedInit
    /\ RestInit
    /\ BarInit
    /\ StateInit
    /\ \E new \in ListsOf(LayoutBlocks, MaxBlocks) :
        /\ computed = process_new_blocks(<< >>, new).computed
        /\ cacheIn = new
        /\ cacheCalls = process_new_blocks(<< >>, new).calls
    /\ cacheRepeat = FALSE
    /\ cacheUpdates = 1
    /\ cacheBefore = << >>

NextLayout == \E offset_left \in OffsetsLeft, full_width \in FullWidths : Frame(offset_left, full_width)

\* render_blocks on every block list, at every offset and bar width.
SpecLayout == LayoutInit /\ [][NextLayout]_vars

NextClick ==
    \/ \E x_offset \in ButtonOffsets, width \in ButtonWidths, elem \in Payloads :
          Push(x_offset, width, elem)
    \/ Clear
    \/ \E x \in ClickXs : Click(x)

\* A ButtonManager under any order of its operations.
SpecClick == Init /\ [][NextClick]_vars

\* What the status command has written when the pointer and error runs
\* start.
FirstFeeds ==
    { << >>, <<"x", "\n">>, <<"H1", "}", "[", "[", "a", "]">>, <<"Hc", "}">>,
      <<"Hc", "}", "[", "[", "a", "]", ",", "[", "b">> }

\* the state after StatusCmd::notify_available has read feed in one piece
\* and set_blocks has stored the blocks: r is what process_new_bytes
\* returned, g what get_blocks returned after it
AfterFeed(feed, r, g) ==
    /\ sent = feed
    /\ pipe = << >>
    /\ protocol = g.protocol
    /\ buf = r.rem
    /\ failed = FALSE
    /\ blocks = IF g.ret # None THEN g.ret[1] ELSE << >>
    /\ redraw = IF g.ret # None THEN draw_all ELSE [b \in Bars |-> FALSE]
    /\ lastCall = [made |-> feed # << >>, pre |-> Unknown, input |-> feed, ok |-> r.ok,
                   rem |-> r.rem, post |-> r.protocol]
    /\ lastTake = [made |-> feed # << >>, fresh |-> feed # << >>, pre |-> r.protocol,
                   ret |-> g.ret]
    /\ decoded = << >>
    /\ held = 0

AfterFirst(feed, r) ==
    IF feed = << >> THEN AfterFeed(feed, r, [protocol |-> Unknown, ret |-> None])
    ELSE AfterFeed(feed, r, get_blocks(r.protocol))

\* The bar with the pointer outside, after the first read of the feed and
\* the first frame.
PointerInit ==
    /\ \E feed \in FirstFeeds :
          AfterFirst(feed, IF feed = << >> THEN Ret(Unknown, TRUE, << >>)
                           ELSE process_new_bytes(Unknown, feed))
    /\ CacheInit
    /\ RestInit
    /\ frame = NoFrame
    /\ lastClick = NoClick
    /\ blocks_btns = BlockRegions
    /\ ThrottleInit
    /\ tags_btns = TagRegions
    /\ seat = [cur_surface |-> FALSE, x |-> 0, pending_button |-> None,
               pending_scroll |-> 0, scroll_frame |-> NoScroll]
    /\ inputOpen = TRUE
    /\ panicked = FALSE
    /\ lastFrame = NoPointerFrame
    /\ pendingCode = 0
    /\ lastError = [made |-> FALSE, text |-> << >>, drawn |-> {}]

NextPointer ==
    \/ \E x \in PointerXs : Enter(x)
    \/ Leave
    \/ \E x \in PointerXs : Motion(x)
    \/ \E code \in ButtonCodes, pressed \in BOOLEAN : Button(code, pressed)
    \/ \E value \in AxisValues : Axis(value)
    \/ \E finger \in BOOLEAN : AxisSource(finger)
    \/ AxisStop
    \/ CloseInput
    \/ PointerFrame

\* The pointer on a bar whose status command has sent its first bytes.
SpecPointer == PointerInit /\ [][NextPointer]_vars

NextScroll ==
    \/ \E x \in {25} : Enter(x)
    \/ Leave
    \/ \E code \in {BTN_LEFT}, pressed \in BOOLEAN : Button(code, pressed)
    \/ \E value \in ScrollValues : Axis(value)
    \/ \E finger \in BOOLEAN : AxisSource(finger)
    \/ AxisStop
    \/ PointerFrame

\* Scrolling in steps smaller than a wheel click, gathered over frames.
SpecScroll == PointerInit /\ [][NextScroll]_vars

NextPress ==
    \/ \E x \in PointerXs : Enter(x)
    \/ Leave
    \/ \E x \in PointerXs : Motion(x)
    \/ \E code \in ButtonCodes, pressed \in BOOLEAN : Button(code, pressed)
    \/ CloseInput
    \/ PointerFrame

\* Button presses and releases, on and off the bar, between pointer frames.
SpecPress == PointerInit /\ [][NextPress]_vars

NextRoute ==
    \/ \E margin \in TagMargins, width \in TagWidths : PushTag(margin, width)
    \/ ClearTags
    \/ CloseInput
    \/ \E has_cmd \in BOOLEAN, button \in {"Left", "WheelUp"}, x \in RouteXs :
          BarClick(has_cmd, button, x)

\* Bar::click on bars with up to three tags, joined or apart, that reach
\* into the block regions.
SpecRoute == PointerInit /\ [][NextRoute]_vars

\* Wheel clicks on the tags of a river output with any focused tags.
SpecRiver == Init /\ [][NextRiver]_vars

\* niri_cb on events about two workspaces on two outputs.
SpecNiri == Init /\ [][NextNiri]_vars

NextError ==
    \/ \E error \in ErrorTexts : SetError(error)
    \/ \E b \in Bars : DrawFrame(b)

\* Errors reported to a bar whose status command has sent its first bytes.
SpecError == PointerInit /\ [][NextError]_vars

----------------------------------------------------------------------------
(* Claims about the status feed                                            *)

\* What the bar ends with: the protocol variant, whether the parser failed,
\* and the block list shown.
Outcome(p, f, b) == [tag |-> p.tag, header |-> p.header, failed |-> f, blocks |-> b]

\* The outcome of handing the whole stream s to a fresh StatusCmd as a
\* single chunk.
OneShot(s) ==
    LET r == process_new_bytes(Unknown, s)
        g == get_blocks(r.protocol)
    IN Outcome(r.protocol, ~r.ok,
               IF r.ok /\ g.ret # None THEN g.ret[1] ELSE << >>)

\* C1: streaming-boundary invariance.  Once every byte of the stream has
\* been delivered, in whatever chunks, the protocol state and the block list
\* shown are those of delivering the stream as one chunk.
C1_StreamingBoundaryInvariance ==
    (pipe = << >> /\ sent # << >>) =>
        Outcome(protocol, failed, blocks) = OneShot(sent)

\* C2 witness: one call in the streaming state completed two snapshots and
\* the second one is pending.
C2_Witness ==
    /\ lastCall.made /\ lastCall.pre.tag = "Json" /\ lastCall.ok
    /\ Len(AllSnapshots(lastCall.input, << >>).snaps) >= 2
    /\ Len(decoded) >= 2
    /\ decoded[Len(decoded) - 1] # Last(decoded)
    /\ protocol.pending = Some(Last(decoded))

Range(s) == {s[i] : i \in 1..Len(s)}

IsSuffix(t, s) == Len(t) <= Len(s) /\ t = Drop(s, Len(s) - Len(t))

\* C2: latest snapshot wins.  In the streaming state the pending list is
\* the last snapshot whose decoding completed since the last get_blocks, and
\* the remainder a successful call returns is the suffix of its input that
\* starts at the first value that is still incomplete.
C2_LatestSnapshotWins ==
    /\ (protocol.tag = "Json" /\ ~failed /\ decoded # << >>) =>
            protocol.pending = Some(Last(decoded))
    /\ (lastCall.made /\ lastCall.pre.tag = "Json" /\ lastCall.ok) =>
            /\ IsSuffix(lastCall.rem, lastCall.input)
            /\ lastCall.rem = AllSnapshots(lastCall.input, << >>).rest
            /\ buf = lastCall.rem
            /\ lastCall.rem # << >> => lastCall.rem[1] \notin DeSkip
            /\ de_first_json("VecBlock", lastCall.rem).kind = "none"

\* The input starts, after spaces, commas and newlines, with a complete
\* header object: Some(<<version, bytes after the header>>), else None.
LeadingHeader(s) ==
    LET t == Drop(s, SkipFrom(s, 1, {" ", ",", "\n"}) - 1) IN
    IF Len(t) >= 2 /\ t[1] \in {"H1", "H2"} /\ t[2] = "}"
    THEN Some(<<IF t[1] = "H1" THEN 1 ELSE 2, Drop(t, 2)>>)
    ELSE None

StripWs(s) == Drop(s, SkipFrom(s, 1, {" ", "\n"}) - 1)

\* C8 witness: a header of version 2 was handed to a parser in state Unknown.
C8_Witness ==
    /\ lastCall.made /\ lastCall.pre.tag = "Unknown"
    /\ LeadingHeader(lastCall.input) # None
    /\ LeadingHeader(lastCall.input)[1][1] = 2
    /\ failed

\* C8: version rejection.  A complete header seen in state Unknown with a
\* version other than 1 is an error that leaves the state Unknown and yields
\* no blocks; with version 1 the header is stored and the bytes after it are
\* processed in the same call.
C8_VersionRejection ==
    (lastCall.made /\ lastCall.pre.tag = "Unknown"
        /\ LeadingHeader(lastCall.input) # None) =>
      LET h == LeadingHeader(lastCall.input)[1]
          rest == StripWs(h[2])
      IN IF h[1] # 1
         THEN /\ ~lastCall.ok /\ failed
              /\ lastCall.post.tag = "Unknown" /\ protocol.tag = "Unknown"
              /\ get_blocks(protocol).ret = None
         ELSE /\ lastCall.post.tag \in {"JsonNotStarted", "Json"}
              /\ lastCall.post.header # None
              /\ lastCall.post.header[1].version = 1
              /\ rest = << >> =>
                    lastCall.ok /\ lastCall.rem = << >>
                        /\ lastCall.post.tag = "JsonNotStarted"
              /\ (rest # << >> /\ rest[1] = "[") => lastCall.post.tag = "Json"
              /\ (rest # << >> /\ rest[1] # "[") => ~lastCall.ok

\* The bytes the last call handed to the state JsonNotStarted, if it did.
NotStartedInput ==
    IF ~lastCall.made THEN None
    ELSE IF lastCall.pre.tag = "JsonNotStarted" THEN Some(lastCall.input)
    ELSE IF lastCall.pre.tag = "Unknown" /\ LeadingHeader(lastCall.input) # None
            /\ LeadingHeader(lastCall.input)[1][1] = 1
         THEN Some(LeadingHeader(lastCall.input)[1][2])
    ELSE None

LastOrNone(s) == IF s = << >> THEN None ELSE Some(Last(s))

\* C9 witness: the header was followed by a byte that is neither whitespace
\* nor '[' and the call failed.
C9_Witness ==
    /\ NotStartedInput # None
    /\ StripWs(NotStartedInput[1]) # << >>
    /\ StripWs(NotStartedInput[1])[1] = "x"
    /\ ~lastCall.ok /\ lastCall.post.tag = "JsonNotStarted"

\* C9: opening bracket.  After the header, leading whitespace is skipped;
\* nothing left: Ok with an empty remainder, still JsonNotStarted; '[':
\* the state becomes Json, starting with no pending snapshot, and the rest is
\* processed in the same call; any other byte: Err, and Json is not reached.
C9_OpeningBracket ==
    NotStartedInput # None =>
      LET t == StripWs(NotStartedInput[1]) IN
      IF t = << >>
      THEN lastCall.ok /\ lastCall.rem = << >> /\ lastCall.post.tag = "JsonNotStarted"
      ELSE IF t[1] = "["
      THEN /\ lastCall.post.tag = "Json"
           /\ LET a == AllSnapshots(Tail(t), << >>) IN
              IF a.stop = "err"
              THEN ~lastCall.ok /\ lastCall.post.pending = None
              ELSE lastCall.ok /\ lastCall.post.pending = LastOrNone(a.snaps)
                     /\ lastCall.rem = a.rest
      ELSE ~lastCall.ok /\ lastCall.post.tag = "JsonNotStarted"

\* C10 witness: get_blocks has just returned a pending snapshot.
C10_Witness ==
    /\ lastTake.made /\ lastTake.fresh
    /\ lastTake.pre.tag = "Json" /\ lastTake.pre.pending # None
    /\ lastTake.ret = lastTake.pre.pending
    /\ protocol.pending = None

\* C10: take-and-clear.  get_blocks returns what is pending (the snapshot,
\* or one default block holding the pending line) and clears it, so calling
\* it again right away returns None; a call of process_new_bytes that
\* completes no snapshot or line does not make anything pending; in Unknown
\* and JsonNotStarted get_blocks returns None.
C10_TakeAndClear ==
    /\ lastTake.made =>
        /\ lastTake.pre.tag \in {"Unknown", "JsonNotStarted"} => lastTake.ret = None
        /\ lastTake.pre.tag = "Json" => lastTake.ret = lastTake.pre.pending
        /\ lastTake.pre.tag = "PlainText" =>
              lastTake.ret = IF lastTake.pre.pending = None THEN None
                             ELSE Some(<<DefaultBlock(lastTake.pre.pending[1])>>)
    /\ (lastTake.made /\ lastTake.fresh) =>
        /\ protocol.pending = None
        /\ protocol.tag = lastTake.pre.tag
        /\ get_blocks(protocol).ret = None
    /\ protocol.tag \in {"Unknown", "JsonNotStarted"} => get_blocks(protocol).ret = None
    /\ (lastCall.made /\ lastCall.ok /\ lastCall.pre.pending = None
          /\ \/ lastCall.pre.tag = "PlainText" /\ "\n" \notin Range(lastCall.input)
             \/ lastCall.pre.tag = "Json"
                  /\ AllSnapshots(lastCall.input, << >>).snaps = << >>)
        => lastCall.post.pending = None

----------------------------------------------------------------------------
(* Claims about the block cache                                            *)

\* C3: cache stability.  A process_new_blocks call that gets the same list
\* as the call before it makes no comp_min_width, comp_full or comp_short
\* call.
C3_CacheStability == cacheRepeat => cacheCalls = 0

\* The cache built from scratch from a list.
RebuildAll(list) ==
    [i \in 1..Len(list) |-> NewComputed(list[i], comp_min_width(list[i]))]

\* C4: cache coherence.  After every process_new_blocks call the cache
\* equals the cache rebuilt from scratch from the list just passed: the same
\* Block, full and short measurement and resolved min_width at every index.
C4_CacheCoherence == computed = RebuildAll(cacheIn)

----------------------------------------------------------------------------
(* Claims about the layout of the blocks and the hit regions               *)

\* the series the last render_blocks call switched, in the order it did
SwitchOrder == SubSeq(frame.deltas, 1, frame.switched)

\* blocks_width of the last call after the first n switches
WidthAfter(n) ==
    frame.grouped_width
    - SumTo([k \in 1..n |-> frame.grouped[SwitchOrder[k]].delta], n)

\* the last call started with blocks that do not fit
Pressure ==
    frame.made /\ frame.offset_left + frame.grouped_width > frame.full_width

C5_Witness ==
    /\ Pressure
    /\ frame.switched >= 1
    /\ \E k \in 1..Len(frame.grouped) :
          frame.grouped[k].delta > 0 /\ ~frame.series[k].switched_to_short
    /\ frame.offset_left + frame.blocks_width = frame.full_width

\* C5: layout fit.  When offset_left + blocks_width > full_width,
\* render_blocks switches series one at a time: only series with delta > 0,
\* each at most once, in non-increasing order of delta, every switch taking
\* the series' delta off blocks_width.  No switch is made once
\* offset_left + blocks_width <= full_width, and when the blocks still do not
\* fit at the end every series with delta > 0 is short; the blocks are then
\* rendered all the same.
C5_LayoutFit ==
    Pressure =>
        /\ \A k \in 1..Len(SwitchOrder) : frame.grouped[SwitchOrder[k]].delta > 0
        /\ \A a, b \in 1..Len(SwitchOrder) :
              a < b => /\ SwitchOrder[a] # SwitchOrder[b]
                       /\ frame.grouped[SwitchOrder[a]].delta
                            >= frame.grouped[SwitchOrder[b]].delta
        /\ \A k \in 1..Len(frame.series) :
              /\ frame.series[k].switched_to_short <=> k \in Range(SwitchOrder)
              /\ (frame.grouped[k].delta > 0 /\ ~frame.series[k].switched_to_short)
                    => \A a \in 1..Len(SwitchOrder) :
                          frame.grouped[SwitchOrder[a]].delta >= frame.grouped[k].delta
        /\ frame.blocks_width = WidthAfter(Len(SwitchOrder))
        /\ \A n \in 0..(Len(SwitchOrder) - 1) :
              frame.offset_left + WidthAfter(n) > frame.full_width
        /\ frame.offset_left + frame.blocks_width > frame.full_width
              => \A k \in 1..Len(frame.series) :
                    frame.grouped[k].delta > 0 => frame.series[k].switched_to_short
        /\ Len(frame.texts) =
              Cardinality({i \in 1..Len(frame.blocks) :
                  \E k \in 1..Len(frame.series) :
                      /\ i \in Range(frame.grouped[k].blocks)
                      /\ to_render(frame.series[k], frame.blocks[i]).width > 0})

\* the measured width of the selected rendering of block i of series k
SelectedWidth(k, i) ==
    IF frame.series[k].switched_to_short /\ frame.blocks[i].short # None
    THEN frame.blocks[i].short[1].width
    ELSE frame.blocks[i].full.width

\* no hit region and no text for a block whose selected rendering is empty
NoRegionForEmpty ==
    \A k \in 1..Len(frame.series) : \A i \in Range(frame.grouped[k].blocks) :
        SelectedWidth(k, i) = 0 =>
            /\ \A t \in Range(frame.texts) : t.block # i
            /\ Len(frame.buttons) = Len(frame.texts)

\* C6: empty-block suppression.  A block whose selected rendering (short if
\* its series was switched and it has a short form, else full) has width 0
\* gets no hit region, and a series all of whose blocks were dropped as empty
\* draws no separator tick and takes no separator width.
C6_EmptyBlockSuppression ==
    frame.made =>
        /\ NoRegionForEmpty
        /\ \A k \in 1..Len(frame.series) :
              (\A i \in Range(frame.grouped[k].blocks) : SelectedWidth(k, i) = 0)
                 => \A g \in Range(frame.gaps) : g.series # k

\* the regions of the last click that x is in
Hits == {i \in 1..Len(lastClick.buttons) :
            /\ lastClick.buttons[i].x_off <= lastClick.x
            /\ lastClick.x <= lastClick.buttons[i].x_off + lastClick.buttons[i].width}

Least(S) == CHOOSE m \in S : \A k \in S : m <= k

\* the regions (0, 10, a), (10, 5, b), in tenths of a pixel
TwoRegions ==
    <<[x_off |-> 0, width |-> 100, elem |-> <<Some("a"), None>>],
      [x_off |-> 100, width |-> 50, elem |-> <<Some("b"), None>>]>>

C7_Witness ==
    /\ lastClick.made
    /\ lastClick.buttons = TwoRegions
    /\ lastClick.x = 100
    /\ lastClick.ret = Some(<<Some("a"), None>>)

\* C7: click mapping.  ButtonManager::click(x) returns the payload of the
\* first region in push order with x_off <= x <= x_off + width, and None when
\* there is none; on the regions (0, 10, a), (10, 5, b) it returns a at 5 and
\* at 10, b at 14.9 and None at 20.
C7_ClickMapping ==
    lastClick.made =>
        /\ Hits = {} => lastClick.ret = None
        /\ Hits # {} =>
              lastClick.ret = Some(lastClick.buttons[Least(Hits)].elem)
        /\ lastClick.buttons = TwoRegions =>
              /\ lastClick.x \in {50, 100} => lastClick.ret = Some(<<Some("a"), None>>)
              /\ lastClick.x = 149 => lastClick.ret = Some(<<Some("b"), None>>)
              /\ lastClick.x = 200 => lastClick.ret = None

----------------------------------------------------------------------------
(* Claims about the protocol state and the delivery of bytes               *)

\* the variant q is the variant p or one the code reaches from it: Unknown
\* becomes PlainText or JsonNotStarted, JsonNotStarted becomes Json (one
\* call may take both steps of the JSON branch)
Forward(p, q) ==
    \/ q.tag = p.tag
    \/ p.tag = "Unknown"
    \/ p.tag = "JsonNotStarted" /\ q.tag = "Json"

C11_Witness ==
    /\ lastCall.made
    /\ lastCall.pre.tag = "JsonNotStarted"
    /\ protocol.tag = "Json"
    /\ protocol.header = lastCall.pre.header
    /\ lastTake.made

\* C11: forward-only protocol state.  Over every sequence of
\* process_new_bytes and get_blocks calls the variant only moves from Unknown
\* to PlainText, from Unknown to JsonNotStarted and from JsonNotStarted to
\* Json: it never goes back, never crosses between the plain-text and the
\* JSON branch, and the header held by JsonNotStarted and Json stays the one
\* first decoded.
C11_ForwardOnly ==
    [][/\ Forward(protocol, protocol')
       /\ protocol.tag \in {"JsonNotStarted", "Json"} => protocol'.header = protocol.header
       /\ protocol'.tag \in {"JsonNotStarted", "Json"} <=> protocol'.header # None]_vars

----------------------------------------------------------------------------
(* Claims about clicks and errors                                          *)

\* the send_click_event calls of the last pointer frame
Sends == Range(lastFrame.sends)

C12_Witness ==
    /\ lastFrame.made
    /\ \E r \in Sends :
          /\ r.tag = "Json"
          /\ ~r.header[1].click_events
          /\ r.ok
          /\ r.wrote = None

\* C12: click-event gating.  send_click_event writes a line to the status
\* command only when the protocol is JsonNotStarted or Json and the header
\* has click_events = true; in Unknown and PlainText, and with click_events
\* false, it writes nothing and returns Ok.
C12_ClickEventGating ==
    \A r \in Sends :
        /\ r.wrote # None =>
              /\ r.tag \in {"JsonNotStarted", "Json"}
              /\ r.header # None
              /\ r.header[1].click_events
        /\ (r.tag \in {"Unknown", "PlainText"} \/ ~r.header[1].click_events) =>
              r.ok /\ r.wrote = None

\* C16: errors never crash the bar.  When writing a click event to the
\* status command fails, the click path of the pointer frame does not panic:
\* the failure becomes the error block, the only block shown.
C16_ClickErrorsDoNotCrash ==
    /\ ~panicked
    /\ (lastFrame.made /\ \E r \in Sends : ~r.ok) =>
          /\ lastError.made
          /\ blocks = <<DefaultBlock(lastError.text)>>

C17_Witness ==
    /\ lastError.made
    /\ lastTake.ret # None
    /\ blocks # lastTake.ret[1]
    /\ lastError.drawn = {}

\* C17: error degradation.  After set_error(msg) the block list is exactly
\* one Block with full_text msg and every other field at its default,
\* whatever was shown before, and every bar has been asked for a frame.
C17_ErrorDegradation ==
    lastError.made =>
        /\ blocks = <<[full_text |-> lastError.text, short_text |-> None,
                       min_width |-> None, markup |-> None, name |-> None,
                       instance |-> None, separator |-> FALSE,
                       separator_block_width |-> 0]>>
        /\ \A b \in Bars : redraw[b] \/ b \in lastError.drawn

\* the button codes of the i3bar protocol
I3Button(btn) ==
    CASE btn = "Left" -> 1 [] btn = "Middle" -> 2 [] btn = "Right" -> 3
      [] btn = "WheelUp" -> 4 [] btn = "WheelDown" -> 5
      [] btn = "Back" -> 8 [] btn = "Forward" -> 9 [] btn = "Unknown" -> 0

\* the button a raw code of linux/input-event-codes.h stands for
RawButton(code) ==
    CASE code = 272 -> "Left" [] code = 273 -> "Right" [] code = 274 -> "Middle"
      [] code = 277 -> "Forward" [] code = 278 -> "Back" [] OTHER -> "Unknown"

\* the block regions the pointer of the last frame was in
FrameHits == {i \in 1..Len(blocks_btns) :
                 /\ blocks_btns[i].x_off <= lastFrame.x
                 /\ lastFrame.x <= blocks_btns[i].x_off + blocks_btns[i].width}

C18_Witness ==
    /\ lastFrame.made
    /\ lastFrame.x = 160
    /\ \E r \in Sends : r.wrote # None /\ r.wrote[1].button = 8
                          /\ r.wrote[1].instance = Some("i")

\* C18: click-event encoding.  Every click event written carries the name
\* and instance of the block that was hit, the button code Left=1, Middle=2,
\* Right=3, WheelUp=4, WheelDown=5, Back=8, Forward=9, Unknown=0, an empty
\* modifiers list and the eight geometry fields, all 0; a raw button code
\* other than those of left, middle, right, forward and back is Unknown.
C18_ClickEventEncoding ==
    /\ \A i \in 1..Len(lastFrame.sends) :
          lastFrame.sends[i].wrote # None =>
             /\ FrameHits # {}
             /\ lastFrame.sends[i].wrote[1] =
                   [name |-> blocks_btns[Least(FrameHits)].elem[1],
                    instance |-> blocks_btns[Least(FrameHits)].elem[2],
                    button |-> I3Button(lastFrame.clicks[i]),
                    modifiers |-> << >>,
                    x |-> 0, y |-> 0, relative_x |-> 0, relative_y |-> 0,
                    output_x |-> 0, output_y |-> 0, width |-> 0, height |-> 0]
    /\ pendingCode # 0 => seat.pending_button = Some(RawButton(pendingCode))

----------------------------------------------------------------------------
(* Claims about plain text, empty input and failures                       *)

\* the positions of the newlines of s
NewlineAt(s) == {i \in 1..Len(s) : s[i] = "\n"}

\* the position before the line that ends at newline number last
LineStart(s, last) ==
    IF NewlineAt(s) \ {last} = {} THEN 0
    ELSE CHOOSE i \in NewlineAt(s) \ {last} : \A j \in NewlineAt(s) \ {last} : j <= i

\* the last newline of s
LastNewline(s) == CHOOSE i \in NewlineAt(s) : \A j \in NewlineAt(s) : j <= i

C13_Witness ==
    /\ lastCall.made
    /\ lastCall.pre.tag = "PlainText"
    /\ Cardinality(NewlineAt(lastCall.input)) >= 2
    /\ lastCall.rem # << >>
    /\ lastCall.post.pending # lastCall.pre.pending

\* C13: plain-text latest line.  In PlainText a buffer with a newline makes
\* the pending line the bytes between the second-to-last newline (or the
\* start) and the last newline, and the remainder the bytes after the last
\* newline; a buffer without newline leaves the pending line alone and is
\* returned whole.  get_blocks then gives one Block, all defaults, whose
\* full_text is the pending line.
C13_PlainTextLatestLine ==
    /\ (lastCall.made /\ lastCall.pre.tag = "PlainText") =>
          /\ lastCall.ok
          /\ lastCall.post.tag = "PlainText"
          /\ IF NewlineAt(lastCall.input) = {}
             THEN /\ lastCall.post.pending = lastCall.pre.pending
                  /\ lastCall.rem = lastCall.input
             ELSE /\ lastCall.post.pending =
                        Some(SubSeq(lastCall.input,
                                    LineStart(lastCall.input, LastNewline(lastCall.input)) + 1,
                                    LastNewline(lastCall.input) - 1))
                  /\ lastCall.rem = Drop(lastCall.input, LastNewline(lastCall.input))
                  /\ NewlineAt(lastCall.rem) = {}
    /\ (lastTake.made /\ lastTake.pre.tag = "PlainText") =>
          IF lastTake.pre.pending = None THEN lastTake.ret = None
          ELSE lastTake.ret =
                  Some(<<[full_text |-> lastTake.pre.pending[1], short_text |-> None,
                          min_width |-> None, markup |-> None, name |-> None,
                          instance |-> None, separator |-> FALSE,
                          separator_block_width |-> 0]>>)

\* C14: empty-slice safety.  In every protocol state process_new_bytes with
\* an empty slice succeeds, returns an empty remainder and changes neither
\* the variant nor the pending value.
C14_EmptySliceSafety ==
    (lastCall.made /\ lastCall.input = << >>) =>
        /\ lastCall.ok
        /\ lastCall.rem = << >>
        /\ lastCall.post = lastCall.pre

\* the input of call c, made in the streaming state, holds a malformed value
Malformed(c) ==
    /\ c.made
    /\ c.pre.tag = "Json"
    /\ AllSnapshots(c.input, << >>).stop = "err"

\* C15: fatal syntax error.  In the streaming state a buffer with a
\* malformed value makes process_new_bytes fail, also when complete
\* snapshots precede the malformed value, and leaves the pending snapshot as
\* it was; the failure is fatal: a call made on the instance after it gives
\* no new snapshot.
C15_FatalSyntaxError ==
    [][/\ Malformed(lastCall') => ~lastCall'.ok /\ lastCall'.post = lastCall'.pre
       /\ (failed /\ protocol.tag = "Json") =>
             /\ blocks' = blocks
             /\ lastTake' = lastTake \/ lastTake'.ret = None]_vars

\* s holds a complete snapshot one of whose blocks has an unknown field
HasExtraField(s) ==
    \E i \in 1..Len(s) : \E k \in (i + 1)..Len(s) :
        /\ s[i] = "["
        /\ s[k] = "]"
        /\ \A m \in (i + 1)..(k - 1) : s[m] \notin {"[", "]"}
        /\ \E m \in (i + 1)..(k - 1) : s[m] \in ExtraFieldObj

\* C19: strict block schema.  A snapshot with a Block object that has a
\* field which is not a field of Block is rejected by the parser: the call
\* that gets it fails, and no block shown comes from such an object.
C19_StrictBlockSchema ==
    /\ (lastCall.made /\ lastCall.pre.tag = "Json" /\ HasExtraField(lastCall.input)) =>
          ~lastCall.ok
    /\ \A i \in 1..Len(blocks) : blocks[i].full_text \notin {<<u>> : u \in ExtraFieldObj}

\* the bytes read from the status command when rest is still in the pipe
BytesRead(rest) == SubSeq(sent, 1, Len(sent) - Len(rest))

----------------------------------------------------------------------------
(* Claims about rebuilding cache entries                                   *)

\* min_width of a block in pixels
Resolved(b) ==
    IF b.min_width = None THEN None
    ELSE IF b.min_width[1].kind = "Pixels" THEN Some(b.min_width[1].px)
    ELSE Some(GlyphWidth * Len(b.min_width[1].text))

\* the measurement of text t under the resolved min_width mw
Measure(t, mw, b) ==
    [text |-> t, markup |-> (b.markup = Some("pango")), min_width |-> mw,
     width |-> IF mw # None /\ GlyphWidth * Len(t) < mw[1] THEN mw[1]
               ELSE GlyphWidth * Len(t)]

\* the entry of a block that is built from nothing but the block
Fresh(b) ==
    [block |-> b, full |-> Measure(b.full_text, Resolved(b), b),
     short |-> IF b.short_text = None THEN None
               ELSE Some(Measure(b.short_text[1], Resolved(b), b)),
     min_width |-> Resolved(b)]

C21_Witness ==
    /\ cacheUpdates = 2
    /\ Len(cacheBefore) = 2
    /\ Len(cacheIn) = 1
    /\ cacheBefore[1].block.full_text # cacheIn[1].full_text
    /\ cacheIn[1].min_width # None

\* C21: length change rebuilds all.  After a process_new_blocks call the
\* cache has as many entries as the list passed, and when that length
\* differs from the cache's before the call every entry is built from the
\* new block alone: Block cloned, min_width resolved, full and short
\* measured.
C21_LengthChangeRebuildsAll ==
    /\ Len(computed) = Len(cacheIn)
    /\ (cacheUpdates > 0 /\ Len(cacheIn) # Len(cacheBefore)) =>
          /\ cacheCalls = 3 * Len(cacheIn)
          /\ \A i \in 1..Len(cacheIn) : computed[i] = Fresh(cacheIn[i])

\* block i of the last list differs from the cached Block in min_width or markup
Differs(i) ==
    \/ cacheIn[i].min_width # cacheBefore[i].block.min_width
    \/ cacheIn[i].markup # cacheBefore[i].block.markup

C22_Witness ==
    /\ cacheUpdates = 2
    /\ Len(cacheIn) = 2
    /\ Len(cacheBefore) = 2
    /\ Differs(1)
    /\ cacheIn[1].markup # cacheBefore[1].block.markup
    /\ ~Differs(2)
    /\ cacheIn[2] = cacheBefore[2].block
    /\ cacheBefore[2].min_width = None

\* C22: a change that affects measurement rebuilds the entry.  In an update
\* of the same length, an entry whose block differs from the cached Block
\* in min_width or markup is replaced as a whole; the resolved min_width of
\* every other entry stays as it is, and an entry whose block equals the
\* cached Block is not measured again.
C22_MeasurementChangeRebuildsEntry ==
    (cacheUpdates > 0 /\ Len(cacheIn) = Len(cacheBefore)) =>
        /\ \A i \in 1..Len(cacheIn) :
              IF Differs(i) THEN computed[i] = Fresh(cacheIn[i])
              ELSE computed[i].min_width = cacheBefore[i].min_width
        /\ (\A j \in 1..Len(cacheIn) : ~Differs(j) => cacheIn[j] = cacheBefore[j].block) =>
              /\ cacheCalls = 3 * Cardinality({i \in 1..Len(cacheIn) : Differs(i)})
              /\ \A j \in 1..Len(cacheIn) : ~Differs(j) => computed[j] = cacheBefore[j]

----------------------------------------------------------------------------
(* Claims about series, widths, separators and regions of a frame          *)

\* the series block i of the last frame was put in
SeriesOf(i) == CHOOSE k \in 1..Len(frame.grouped) : i \in Range(frame.grouped[k].blocks)

C23_Witness ==
    /\ frame.made
    /\ Len(frame.blocks) = 3
    /\ Len(frame.grouped) = 2
    /\ Len(frame.grouped[2].blocks) = 2
    /\ frame.blocks[1].block.separator_block_width = 0
    /\ frame.blocks[2].block.name # frame.blocks[1].block.name

\* C23: series partition.  The series of a render_blocks call are runs of
\* consecutive blocks that follow each other without a gap from the first
\* block to the last; two adjacent blocks share a series iff the left one
\* has separator_block_width 0 and the right one has the name of the first
\* block of the series; a series has the separator and the
\* separator_block_width of its last block.
C23_SeriesPartition ==
    frame.made =>
        /\ (Len(frame.grouped) = 0) <=> (Len(frame.blocks) = 0)
        /\ \A k \in 1..Len(frame.grouped) :
              /\ Len(frame.grouped[k].blocks) >= 1
              /\ frame.grouped[k].blocks[1] =
                    IF k = 1 THEN 1 ELSE Last(frame.grouped[k - 1].blocks) + 1
              /\ \A n \in 2..Len(frame.grouped[k].blocks) :
                    frame.grouped[k].blocks[n] = frame.grouped[k].blocks[n - 1] + 1
              /\ k = Len(frame.grouped) => Last(frame.grouped[k].blocks) = Len(frame.blocks)
              /\ frame.grouped[k].separator =
                    frame.blocks[Last(frame.grouped[k].blocks)].block.separator
              /\ frame.grouped[k].separator_block_width =
                    frame.blocks[Last(frame.grouped[k].blocks)].block.separator_block_width
        /\ \A i \in 1..(Len(frame.blocks) - 1) :
              (SeriesOf(i) = SeriesOf(i + 1)) <=>
                 /\ frame.blocks[i].block.separator_block_width = 0
                 /\ frame.blocks[i + 1].block.name =
                       frame.blocks[frame.grouped[SeriesOf(i)].blocks[1]].block.name

\* the separator widths of all series of the last frame but the last one
SeparatorsBetween ==
    SumTo([k \in 1..Len(frame.grouped) |->
              IF k < Len(frame.grouped) THEN frame.grouped[k].separator_block_width ELSE 0],
          Len(frame.grouped))

C24_Witness ==
    /\ frame.made
    /\ frame.switched >= 1
    /\ Len(frame.grouped) >= 2
    /\ SeparatorsBetween > 0
    /\ frame.grouped[Len(frame.grouped)].separator_block_width > 0
    /\ \E k \in 1..Len(frame.series) :
          /\ frame.series[k].switched_to_short
          /\ \E i \in Range(frame.grouped[k].blocks) : frame.blocks[i].short = None

\* C24: width accounting.  After grouping blocks_width is the sum of the
\* full widths of all blocks plus the separator_block_width of every series
\* but the last; after the switching it is the sum of the widths of the
\* selected renderings (short for a block with a short form in a switched
\* series, else full) plus the same separator widths.
C24_WidthAccounting ==
    frame.made =>
        /\ frame.grouped_width =
              SumTo([i \in 1..Len(frame.blocks) |-> frame.blocks[i].full.width],
                    Len(frame.blocks))
              + SeparatorsBetween
        /\ frame.blocks_width =
              SumTo([i \in 1..Len(frame.blocks) |-> SelectedWidth(SeriesOf(i), i)],
                    Len(frame.blocks))
              + SeparatorsBetween

C25_Witness ==
    /\ frame.made
    /\ frame.offset_left + frame.grouped_width = frame.full_width
    /\ \E k \in 1..Len(frame.grouped) : frame.grouped[k].delta > 0

\* C25: no abbreviation without width pressure.  When offset_left +
\* blocks_width <= full_width after grouping, no series is switched and every
\* text drawn is the full text of its block.
C25_NoAbbreviationWithoutPressure ==
    (frame.made /\ frame.offset_left + frame.grouped_width <= frame.full_width) =>
        /\ frame.switched = 0
        /\ \A k \in 1..Len(frame.series) : ~frame.series[k].switched_to_short
        /\ frame.blocks_width = frame.grouped_width
        /\ \A t \in Range(frame.texts) : t.text = frame.blocks[t.block].full

\* C26: separators only between series.  render_blocks draws a separator
\* tick and takes separator width after a series only if another series
\* follows it and the series has separator_block_width > 0, the tick only if
\* it has separator = true; nothing is drawn or taken after the last series,
\* whether or not blocks were dropped as empty.
C26_SeparatorsOnlyBetweenSeries ==
    frame.made =>
        \A g \in Range(frame.gaps) :
            /\ g.series < Len(frame.series)
            /\ frame.series[g.series].separator_block_width > 0
            /\ g.tick => frame.series[g.series].separator

\* the blocks of the last frame whose selected rendering is not empty
Rendered == {i \in 1..Len(frame.blocks) : SelectedWidth(SeriesOf(i), i) > 0}

C27_Witness ==
    /\ frame.made
    /\ Len(frame.blocks) = 3
    /\ Len(blocks_btns) = 2
    /\ frame.switched >= 1
    /\ blocks_btns[1].elem # blocks_btns[2].elem
    /\ blocks_btns[2].x_off > blocks_btns[1].x_off + blocks_btns[1].width

\* C27: hit regions mirror the render.  After a render_blocks call the
\* registry holds exactly one region per rendered block and nothing else, in
\* the order of the blocks and with non-decreasing offsets; a region has the
\* x position and the width at which its block was painted and the block's
\* (name, instance).
C27_HitRegionsMirrorRender ==
    frame.made =>
        /\ blocks_btns = frame.buttons
        /\ Len(blocks_btns) = Cardinality(Rendered)
        /\ Len(blocks_btns) = Len(frame.texts)
        /\ \A n \in 1..Len(blocks_btns) :
              /\ frame.texts[n].block \in Rendered
              /\ blocks_btns[n].x_off = frame.texts[n].x_offset
              /\ blocks_btns[n].width =
                    SelectedWidth(SeriesOf(frame.texts[n].block), frame.texts[n].block)
              /\ blocks_btns[n].width = frame.texts[n].text.width
              /\ blocks_btns[n].elem = <<frame.blocks[frame.texts[n].block].block.name,
                                         frame.blocks[frame.texts[n].block].block.instance>>
              /\ n > 1 => /\ frame.texts[n - 1].block < frame.texts[n].block
                          /\ blocks_btns[n - 1].x_off <= blocks_btns[n].x_off

\* C28: reserved left space.  No hit region pushed by render_blocks starts
\* left of offset_left, also when the blocks do not fit after every
\* switchable series is short, so no click left of offset_left hits a block.
C28_ReservedLeftSpace ==
    frame.made =>
        /\ \A n \in 1..Len(blocks_btns) : blocks_btns[n].x_off >= frame.offset_left
        /\ \A x \in 0..(frame.offset_left - 1) : click(blocks_btns, x) = None

\* the right edge of region n
RightEdge(n) == blocks_btns[n].x_off + blocks_btns[n].width

\* the separator widths of the series closed between regions n and n + 1
ClosedBetween(n) ==
    SumTo([k \in 1..Len(frame.series) |->
              IF /\ SeriesOf(frame.texts[n].block) <= k
                 /\ k < SeriesOf(frame.texts[n + 1].block)
              THEN frame.series[k].separator_block_width ELSE 0],
          Len(frame.series))

\* C29: right anchoring.  When at least one block is rendered the right edge
\* of the last region is full_width, no region ends right of full_width, and
\* two consecutive regions are apart by the separator widths of the series
\* closed between them.
C29_RightAnchoring ==
    (frame.made /\ Len(blocks_btns) >= 1) =>
        /\ RightEdge(Len(blocks_btns)) = frame.full_width
        /\ \A n \in 1..Len(blocks_btns) : RightEdge(n) <= frame.full_width
        /\ \A n \in 1..(Len(blocks_btns) - 1) :
              blocks_btns[n + 1].x_off - RightEdge(n) = ClosedBetween(n)

C30_Witness ==
    /\ lastBarFrame.made
    /\ lastBarFrame.pre.mapped
    /\ lastBarFrame.outstanding # {}
    /\ lastBarFrame.post.throttled
    /\ ~lastBarFrame.pre.throttled
    /\ \E b \in Bars : b # lastBarFrame.bar /\ bar[b].throttle # None /\ ~bar[b].mapped

\* C30: frame throttling.  A bar waits for at most one frame callback at a
\* time; Bar::frame called while one is outstanding draws nothing, attaches
\* no buffer, requests no callback and only sets throttled; Bar::frame
\* called on a bar that is not mapped draws nothing, requests no callback and
\* leaves the bar as it is.
C30_FrameThrottling ==
    /\ \A b \in Bars : Cardinality({p \in callbacks : p[2] = b}) <= 1
    /\ lastBarFrame.made =>
          /\ lastBarFrame.outstanding # {} =>
                /\ ~lastBarFrame.drew
                /\ lastBarFrame.cb = None
                /\ lastBarFrame.post.throttle = lastBarFrame.pre.throttle
                /\ lastBarFrame.post.mapped = lastBarFrame.pre.mapped
                /\ lastBarFrame.post.hidden = lastBarFrame.pre.hidden
                /\ lastBarFrame.pre.mapped => lastBarFrame.post.throttled
          /\ ~lastBarFrame.pre.mapped =>
                /\ ~lastBarFrame.drew
                /\ lastBarFrame.cb = None
                /\ lastBarFrame.post = lastBarFrame.pre

\* The bar that waits for the frame callback c: the first of them, as
\* Iterator::find takes it.
Waiting(c) == CHOOSE b \in Bars :
    bar[b].throttle = Some(c) /\ \A d \in Bars : d < b => bar[d].throttle # Some(c)

C31_Witness ==
    /\ lastBarFrame.made
    /\ lastBarFrame.by = "done"
    /\ lastBarFrame.drew
    /\ lastBarFrame.pre.mapped
    /\ bar[lastBarFrame.bar] = lastBarFrame.post
    /\ \E b \in Bars : b # lastBarFrame.bar /\ bar[b].throttled

\* C31: no lost redraw.  When the frame callback a bar waits for fires and
\* Bar::frame was called meanwhile (throttled) on a bar that is mapped, the bar
\* is redrawn by one call of Bar::frame that starts from throttle = None and
\* throttled = FALSE, requests the next callback and leaves throttled reset;
\* when no frame was requested meanwhile, the callback clears throttle and
\* nothing else: no call of Bar::frame, no new callback.
C31_NoLostRedraw ==
    [][\A c \in 1..MaxCallbacks :
          (CallbackDone(c) /\ \E b \in Bars : bar[b].throttle = Some(c)) =>
             /\ \A d \in Bars \ {Waiting(c)} : bar'[d] = bar[d]
             /\ (bar[Waiting(c)].throttled /\ bar[Waiting(c)].mapped) =>
                   /\ lastBarFrame'.made /\ lastBarFrame'.by = "done"
                   /\ lastBarFrame'.bar = Waiting(c)
                   /\ lastBarFrame'.pre =
                         [bar[Waiting(c)] EXCEPT !.throttle = None, !.throttled = FALSE]
                   /\ lastBarFrame'.outstanding = {}
                   /\ lastBarFrame'.drew
                   /\ lastBarFrame'.cb # None
                   /\ lastBarFrame'.post = bar'[Waiting(c)]
                   /\ bar'[Waiting(c)] =
                         [bar[Waiting(c)] EXCEPT !.throttle = lastBarFrame'.cb,
                                                 !.throttled = FALSE]
                   /\ Cardinality({p \in callbacks' : p[2] = Waiting(c)}) = 1
             /\ ~bar[Waiting(c)].throttled =>
                   /\ bar'[Waiting(c)] = [bar[Waiting(c)] EXCEPT !.throttle = None]
                   /\ lastBarFrame' = lastBarFrame
                   /\ callbacks' = {p \in callbacks : p[1] # c}
                   /\ {p \in callbacks' : p[2] = Waiting(c)} = {}]_vars

\* Claims about showing and hiding a bar

C32_Witness ==
    /\ lastBarFrame.made
    /\ lastBarFrame.by = "configure"
    /\ lastBarFrame.drew
    /\ bar[lastBarFrame.bar].hidden
    /\ bar[lastBarFrame.bar].width = 1
    /\ \E b \in Bars : bar[b].hidden /\ bar[b].width = 0 /\ bar[b].acked = 0

\* A buffer is drawn for bar b in this step.
DrawnNow(b) ==
    \/ {p \in callbacks' : p[2] = b} \ callbacks # {}
    \/ lastBarFrame' # lastBarFrame /\ lastBarFrame'.bar = b /\ lastBarFrame'.drew

\* C32: visibility.  A mapped bar is never hidden.  Whatever happens to a
\* hidden bar that stays hidden (a Configure among it) leaves its width and
\* the acknowledged serial alone and draws nothing; Bar::hide leaves hidden
\* set and mapped clear; a buffer is drawn only for a bar that is mapped and
\* not hidden, a bar becomes mapped only through a Configure while it is not
\* hidden, and a hidden bar stops being hidden only through Bar::show.
C32_VisibilityInvariant ==
    [][\A b \in Bars :
          /\ bar[b].mapped => ~bar[b].hidden
          /\ bar'[b].mapped => ~bar'[b].hidden
          /\ (bar[b].hidden /\ ~Show(b)) =>
                /\ bar'[b].hidden /\ ~bar'[b].mapped
                /\ bar'[b].width = bar[b].width
                /\ bar'[b].acked = bar[b].acked
                /\ ~DrawnNow(b)
          /\ Hide(b) => bar'[b].hidden /\ ~bar'[b].mapped
          /\ DrawnNow(b) => bar'[b].mapped /\ ~bar'[b].hidden
          /\ (~bar[b].mapped /\ bar'[b].mapped) =>
                /\ ~bar[b].hidden
                /\ \E width \in Widths, serial \in Serials :
                      Configure(b, width, serial)]_vars

-----------------------------------------------------------------------------
(* Claims about the event loop                                             *)

\* The descriptors poll reported an event for in this iteration.
Reported == {eventLoop.pollfds[k].fd : k \in {j \in DOMAIN eventLoop.pollfds :
                                                eventLoop.pollfds[j].revents # 0}}

OfKind(e, kind) == e.kind = kind
IsFdCall(e) == OfKind(e, "fd")
IsIdleCall(e) == OfKind(e, "idle")
IsKept(e) == e.ret = "Keep"

\* The calls of descriptor callbacks and of on-idle callbacks of this iteration.
FdCalls == SelectSeq(iteration.log, IsFdCall)
IdleCalls == SelectSeq(iteration.log, IsIdleCall)

\* The callbacks called, in the order of the calls.
Called(calls) == [k \in DOMAIN calls |-> calls[k].cb]

C33_Witness ==
    /\ iteration.n = 2
    /\ eventLoop.pc = "idle"
    /\ \E k \in DOMAIN FdCalls : FdCalls[k].ret = "Keep"
    /\ \E fd \in Fds : <<"fd", fd>> \in iteration.unregistered
    /\ \E k \in DOMAIN eventLoop.pollfds : eventLoop.pollfds[k].revents = 0

\* C33: registration of descriptor callbacks.  A callback is invoked only
\* for a descriptor poll reported an event for, at most once per iteration
\* and never after it returned Unregister; one that returned Keep is
\* registered, one that returned Unregister is not; one that returned an
\* error was the last call and run returned its error; run returns Ok only
\* with no descriptor callback registered.
C33_EventLoopRegistration ==
    /\ \A k \in DOMAIN FdCalls :
          /\ FdCalls[k].cb \in Reported
          /\ ~FdCalls[k].again
          /\ \A j \in DOMAIN FdCalls : j # k => FdCalls[j].cb # FdCalls[k].cb
          /\ FdCalls[k].ret = "Keep" => FdCalls[k].cb \in eventLoop.cbs
          /\ FdCalls[k].ret = "Unregister" =>
                /\ FdCalls[k].cb \notin eventLoop.cbs
                /\ <<"fd", FdCalls[k].cb>> \in iteration.unregistered
          /\ FdCalls[k].ret = "Err" =>
                /\ iteration.log[Len(iteration.log)] = FdCalls[k]
                /\ eventLoop.pc = "done"
                /\ eventLoop.result = Some(<<"fd", FdCalls[k].cb>>)
    /\ \A fd \in Fds : <<"fd", fd>> \in iteration.unregistered => fd \notin eventLoop.cbs
    /\ (eventLoop.pc = "done" /\ eventLoop.result = Some(<<"Ok", 0>>)) => eventLoop.cbs = {}
    /\ (eventLoop.pc = "done" /\ eventLoop.cbs = {} /\ \A k \in DOMAIN iteration.log :
            iteration.log[k].ret # "Err") => eventLoop.result \in {Some(<<"Ok", 0>>), Some(<<"poll", 0>>)}

\* An iteration of run got to its on-idle callbacks and is over: run is
\* back at the head of the loop or has returned.
IdleOver ==
    /\ iteration.n > 0
    /\ \/ eventLoop.pc = "while"
       \/ eventLoop.pc = "done" /\ eventLoop.result = Some(<<"Ok", 0>>)
       \/ eventLoop.pc = "done" /\ \E cb \in 1..MaxIdle : eventLoop.result = Some(<<"idle", cb>>)

\* The descriptor callbacks all precede the on-idle callbacks.
FdCallsFirst == iteration.log = FdCalls \o IdleCalls

\* The callbacks of calls that returned Keep, in the order of the calls.
Kept(calls) == Called(SelectSeq(calls, IsKept))

\* C34 as stated: in each iteration, once the ready descriptor callbacks have
\* run, every registered on-idle callback is invoked exactly once in
\* registration order; those that returned Keep stay registered in that order
\* and those that returned Unregister are not invoked again.
C34_IdleCallbacks ==
    /\ FdCallsFirst
    /\ \A k \in DOMAIN IdleCalls : ~IdleCalls[k].again
    /\ IdleOver => Called(IdleCalls) = iteration.idle
    /\ (iteration.n > 0 /\ eventLoop.pc = "while") => eventLoop.on_idle = Kept(IdleCalls)

C34_Witness ==
    /\ iteration.n = 2
    /\ eventLoop.pc = "while"
    /\ Len(IdleCalls) = 2
    /\ Len(eventLoop.on_idle) = 2
    /\ <<"idle", 2>> \in iteration.unregistered

\* C34 amended: the on-idle callbacks are invoked in registration order, each
\* once, up to the first that returns an error, which ends run with that
\* error; when none fails every registered one is invoked.
C34_IdleCallbacksUntilError ==
    /\ FdCallsFirst
    /\ \A k \in DOMAIN IdleCalls :
          /\ ~IdleCalls[k].again
          /\ IdleCalls[k].ret = "Err" =>
                /\ k = Len(IdleCalls)
                /\ eventLoop.pc = "done"
                /\ eventLoop.result = Some(<<"idle", IdleCalls[k].cb>>)
    /\ Called(IdleCalls) = SubSeq(iteration.idle, 1, Len(IdleCalls))
    /\ (IdleOver /\ \A k \in DOMAIN IdleCalls : IdleCalls[k].ret # "Err") =>
          Called(IdleCalls) = iteration.idle
    /\ eventLoop.pc = "idle" => FdCalls # << >> /\ {FdCalls[k].cb : k \in DOMAIN FdCalls} = Reported
    /\ (iteration.n > 0 /\ eventLoop.pc = "while") => eventLoop.on_idle = Kept(IdleCalls)

-----------------------------------------------------------------------------
(* Claims about the pointer                                                *)

\* The wheel clicks among the clicks of the last pointer frame.
WheelClicks(f) == SelectSeq(f.clicks, LAMBDA b : b \in {"WheelUp", "WheelDown"})

\* pending_scroll with the scroll frame taken in: the total added, or
\* subtracted for a finger under invert_touchpad_scrolling, and 0 on a stop.
Gathered(s) ==
    IF s.scroll_frame.stop THEN 0
    ELSE IF s.scroll_frame.is_finder /\ invert_touchpad_scrolling
         THEN s.pending_scroll - s.scroll_frame.absolute
    ELSE s.pending_scroll + s.scroll_frame.absolute

C35_Witness ==
    /\ lastFrame.made
    /\ lastFrame.clicks = <<"Left", "WheelUp">>
    /\ seat.pending_scroll = 0
    /\ seat.scroll_frame = [stop |-> TRUE, absolute |-> -10, is_finder |-> TRUE]

\* C35: scroll accumulation.  A pointer frame on a bar takes the scroll of
\* the frame into pending_scroll and emits WheelDown exactly when that is at
\* least 15, WheelUp exactly when it is at most -15, no wheel click else and
\* never two; pending_scroll is 0 after a wheel click and the gathered value
\* otherwise.  Off a bar pending_scroll is left alone and nothing is emitted.
\* Every frame resets the scroll frame, and pending_scroll stays within
\* -15 and 15, both excluded.
C35_ScrollAccumulation ==
    [][PointerFrame =>
          /\ seat'.scroll_frame = NoScroll
          /\ seat'.pending_scroll > -15 /\ seat'.pending_scroll < 15
          /\ lastFrame'.made
          /\ IF seat.cur_surface
             THEN /\ WheelClicks(lastFrame') =
                        IF Gathered(seat) >= 15 THEN <<"WheelDown">>
                        ELSE IF Gathered(seat) <= -15 THEN <<"WheelUp">>
                        ELSE << >>
                  /\ seat'.pending_scroll =
                        IF WheelClicks(lastFrame') # << >> THEN 0 ELSE Gathered(seat)
             ELSE /\ lastFrame'.clicks = << >>
                  /\ seat'.pending_scroll = seat.pending_scroll]_vars

\* The clicks of a pointer frame that are not wheel clicks.
ButtonClicks(f) == SelectSeq(f.clicks, LAMBDA b : b \notin {"WheelUp", "WheelDown"})

C36_Witness ==
    /\ lastFrame.made
    /\ lastFrame.clicks = <<"Right">>
    /\ lastFrame.x = 120
    /\ seat.x = 160
    /\ ~seat.cur_surface
    /\ seat.pending_button = Some("Unknown")

\* C36: delivery of button presses.  A press makes its button the pending
\* one and delivers nothing; a release changes nothing; clicks are made in
\* pointer frames only.  A frame clears the pending button; on a bar it
\* delivers it, once, at the position the seat has at the frame, and off
\* every surface it delivers nothing, so that press is never delivered.
C36_ButtonPressDelivery ==
    [][
        /\ PointerFrame =>
             /\ seat'.pending_button = None
             /\ lastFrame'.made
             /\ lastFrame'.x = seat.x
             /\ ButtonClicks(lastFrame') =
                   IF seat.cur_surface /\ seat.pending_button # None
                   THEN <<seat.pending_button[1]>>
                   ELSE << >>
             /\ ~seat.cur_surface => lastFrame'.clicks = << >> /\ lastFrame'.sends = << >>
        /\ lastFrame' # lastFrame => PointerFrame
        /\ \A code \in ButtonCodes :
              /\ Button(code, TRUE) =>
                    /\ seat' = [seat EXCEPT !.pending_button = Some(PointerBtnFrom(code))]
                    /\ lastFrame' = lastFrame
              /\ Button(code, FALSE) => seat' = seat /\ lastFrame' = lastFrame
        /\ (seat.pending_button = None /\ seat'.pending_button # None) =>
              \E code \in ButtonCodes : Button(code, TRUE)
        /\ (seat.pending_button # None /\ seat'.pending_button = None) => PointerFrame]_vars

\* Region k of regions contains x.
Contains(regions, k, x) ==
    regions[k].x_off <= x /\ x <= regions[k].x_off + regions[k].width

\* x is in some region of regions.
InSome(regions, x) == \E k \in DOMAIN regions : Contains(regions, k, x)

\* x lies between tag regions: one starts at or left of x, one ends at or
\* right of x.
BetweenTags(tags, x) ==
    /\ \E k \in DOMAIN tags : tags[k].x_off <= x
    /\ \E k \in DOMAIN tags : tags[k].x_off + tags[k].width >= x

C37_Witness ==
    /\ lastRoute.made
    /\ lastRoute.to = "wm"
    /\ InSome(lastRoute.btns, lastRoute.x)
    /\ lastRoute.status_cmd # None
    /\ supports_clicks(lastRoute.status_cmd[1].protocol)
    /\ lastRoute.status_cmd[1].open

\* C37: routing of a click.  Bar::click at x goes to a tag whose region
\* contains x if there is one; else, when x is between tag regions, to the
\* window-manager provider with no tag; else to a block whose region contains
\* x; else nowhere.  A click in the tag area is never delivered to a block,
\* click events are sent only for clicks that went to a block, and never
\* when there is no status command.
C37_ClickRoutingPriority ==
    lastRoute.made =>
        /\ lastRoute.to \in {"tag", "wm", "block", "none"}
        /\ InSome(lastRoute.tags, lastRoute.x) <=> lastRoute.to = "tag"
        /\ lastRoute.to = "tag" =>
              /\ \E k \in DOMAIN lastRoute.tags :
                    /\ Contains(lastRoute.tags, k, lastRoute.x)
                    /\ lastRoute.tag = Some(lastRoute.tags[k].elem)
              /\ lastRoute.block = None
        /\ (~InSome(lastRoute.tags, lastRoute.x) /\ BetweenTags(lastRoute.tags, lastRoute.x))
              <=> lastRoute.to = "wm"
        /\ lastRoute.to = "wm" => lastRoute.tag = None /\ lastRoute.block = None
        /\ (~BetweenTags(lastRoute.tags, lastRoute.x) /\ InSome(lastRoute.btns, lastRoute.x))
              <=> lastRoute.to = "block"
        /\ lastRoute.to = "block" =>
              /\ \E k \in DOMAIN lastRoute.btns :
                    /\ Contains(lastRoute.btns, k, lastRoute.x)
                    /\ lastRoute.block = Some(lastRoute.btns[k].elem)
              /\ lastRoute.tag = None
        /\ lastRoute.to = "none" => lastRoute.tag = None /\ lastRoute.block = None
        /\ BetweenTags(lastRoute.tags, lastRoute.x) =>
              lastRoute.to # "block" /\ lastRoute.sends = << >>
        /\ lastRoute.to # "block" => lastRoute.sends = << >>
        /\ lastRoute.status_cmd = None => lastRoute.sends = << >>
        /\ Len(lastRoute.sends) <= 1

-----------------------------------------------------------------------------
(* Claims about the window-manager providers                               *)

C38_Witness ==
    /\ command.made
    /\ command.btn = "WheelDown"
    /\ command.from = {31}
    /\ command.tags = {31}
    /\ focused_tags = {0}

\* C38: a wheel click on the tags under river never clears the focus.  The
\* mask sent is the focused mask moved down one bit (WheelUp) or up one bit
\* with the bit above bit 31 lost (WheelDown) whenever that is not 0; a
\* non-zero focused mask gives a non-zero mask: tag 1 stays on WheelUp from
\* tag 1 alone, tag 32 on WheelDown from tag 32 alone.
C38_RiverWheelKeepsFocus ==
    command.made =>
        /\ command.tags \subseteq Bits
        /\ command.from # {} => command.tags # {}
        /\ command.btn = "WheelUp" =>
              /\ command.from \notin {{}, {0}} =>
                    \A b \in Bits : b \in command.tags <=> (b + 1) \in command.from
              /\ command.from = {0} => command.tags = {0}
        /\ command.btn = "WheelDown" =>
              /\ command.from \notin {{}, {31}} =>
                    \A b \in Bits : b \in command.tags <=> (b - 1) \in command.from
              /\ command.from = {31} => command.tags = {31}

Known(ws, id) == \E i \in DOMAIN ws : ws[i].id = id

\* C39: after a WorkspaceActivated event for a known workspace that
\* workspace is active and no other workspace of its output is, whatever
\* the flags were before; an event for an unknown id changes no workspace
\* and does not set updated, and tags_updated is called at the end of
\* niri_cb only when updated is set.
C39_NiriActiveWorkspace ==
    /\ (lastNiri.made /\ lastNiri.event.tag = "WorkspaceActivated") =>
          /\ Known(lastNiri.before, lastNiri.event.id) =>
                \A i \in DOMAIN lastNiri.after :
                    lastNiri.after[i].id = lastNiri.event.id =>
                        /\ lastNiri.after[i].is_active
                        /\ \A j \in DOMAIN lastNiri.after :
                              (j # i /\ lastNiri.after[j].output = lastNiri.after[i].output)
                                  => ~lastNiri.after[j].is_active
          /\ ~Known(lastNiri.before, lastNiri.event.id) =>
                /\ lastNiri.after = lastNiri.before
                /\ lastNiri.updated = lastNiri.was
    /\ lastNiri.tags_updated => lastNiri.updated

====
